---- MODULE Spec2Model ----
(***************************************************************************)
(* Model of the LiveRooms signaling relay (server/src/index.ts) and of the *)
(* negotiation logic of one participant (frontend/src/Room.tsx).           *)
(*                                                                         *)
(* The relay is a socket.io server.  Node runs every event handler to      *)
(* completion, so each handler ("connection", "join", "offer", "answer",   *)
(* "ice-candidate", "disconnect") is one atomic action.                    *)
(*                                                                         *)
(* Room identifiers are caller-supplied strings (ClientToServerEvents.join *)
(* declares roomId: string).  The model ranges over the empty string, the  *)
(* literal fallback name and NumRooms further names; the names are taken   *)
(* to be different from socket ids, so the private room socket.io keeps    *)
(* per socket never collides with an application room.                     *)
(*                                                                         *)
(* Besides the program state the module keeps observation variables:       *)
(*   sent   - the emissions of the handler that ran last, in order;        *)
(*   last   - which handler ran last and its arguments.                    *)
(*                                                                         *)
(* Spec is the relay with NumSockets connections.  ClientSpec is one Room  *)
(* component from the moment its RTCPeerConnection exists and its socket   *)
(* listeners are registered; the relay and the peer are its environment    *)
(* and may deliver any event in any order.  The browser runs each listener *)
(* up to its next await; what it awaits is an operation on the connection's*)
(* operations chain, which settles operations in the order they were       *)
(* chained and resumes the awaiting function in the same task.             *)
(*                                                                         *)
(* FaultSpec is the same component with an open session in which a call    *)
(* on the connection may also fail for a reason of its own.  SystemSpec    *)
(* puts the relay together with one Room component per socket, joined by   *)
(* FIFO channels (toRelay, toClient); LiveSpec is SystemSpec where nobody  *)
(* disconnects or leaves and every due step is eventually taken.           *)
(***************************************************************************)
EXTENDS Naturals, FiniteSets, Sequences, TLC

(* ------------------------------ bounds --------------------------------- *)
\* number of socket connections the relay accepts during a run
NumSockets == 3
\* number of room names besides "default_fallback_room"
NumRooms == 1
\* number of connection calls that fail for a reason other than the
\* connection's state during a run of FaultSpec
MaxFaults == 1
\* number of candidates a participant's connection gathers in SystemSpec and
\* LiveSpec
MaxGathered == 1

Sockets == 1..NumSockets
\* the socket field of the observation record before any handler has run
NoSocket == NumSockets + 1

(* --------------------------- program values ---------------------------- *)
\* the literal of index.ts line 49
DefaultFallbackRoom == "default_fallback_room"
\* SocketData.currentRoom?: string -- the absent value
undefined == "<undefined>"
\* a falsy join argument (the empty string)
EmptyInput == ""

RoomNames == {DefaultFallbackRoom} \cup {"room" \o ToString(i) : i \in 1..NumRooms}
RoomInputs == {EmptyInput} \cup RoomNames

\* opaque descriptors (RTCSessionDescriptionInit / RTCIceCandidateInit)
Payloads == {"X", "Y"}
NoData == "-"
ForwardEvents == {"offer", "answer", "ice-candidate"}

VARIABLES status, currentRoom, rooms, sent, last

relayVars == <<status, currentRoom, rooms, sent, last>>

\* One participant (Room.tsx):
\*   pcCurrent           - peerConnection.current is not null
\*   signalingState      - peerConnection.current.signalingState
\*   remoteDescription, localDescription - the connection's descriptions
\*   queuedIceCandidates - queuedIceCandidates.current
\*   operations          - the connection's operations chain: every entry is
\*                         an awaited call together with what the awaiting
\*                         function does once it settles
\*   listening           - the socket listeners are registered
\*   connectionStatus    - the status text (setConnectionStatus)
\* and, as observation,
\*   faults    - number of connection calls that failed for a reason other
\*               than the connection's state
\*   delivered - number of events handled so far
\*   arrived   - the candidates received, in order of arrival, each with
\*               whether a remote description was set, the session open
\*               and an answer already sent
\*   pcLog     - the calls made on the connection and what it applied
\*   outbox    - what the participant has emitted to the relay, in order
\*   lastEvent - the listener or operation that ran last
VARIABLES pcCurrent, signalingState, remoteDescription, localDescription,
          queuedIceCandidates, operations, listening, connectionStatus,
          faults, delivered, arrived, pcLog, outbox, lastEvent

clientVars == <<pcCurrent, signalingState, remoteDescription, localDescription,
                queuedIceCandidates, operations, listening, connectionStatus,
                faults, delivered, arrived, pcLog, outbox, lastEvent>>

\* The relay together with one Room component per socket (SystemSpec,
\* LiveSpec):
\*   peers    - per socket, the component's session: the fields above, and
\*              the number of candidates its connection has gathered
\*   toRelay  - per socket, what the component has emitted and the relay
\*              has not handled yet, in order
\*   toClient - per socket, what the relay has emitted to it and the
\*              component has not handled yet, in order
VARIABLES peers, toRelay, toClient

sysVars == <<peers, toRelay, toClient>>

vars == <<relayVars, clientVars, sysVars>>

\* a description the connection does not have
NoDescription == [type |-> "null", sdp |-> "-"]

\* Effect 2 has run: new RTCPeerConnection(servers), an empty queue, the
\* listeners registered
ClientFresh ==
  /\ pcCurrent = TRUE
  /\ signalingState = "stable"
  /\ remoteDescription = NoDescription
  /\ localDescription = NoDescription
  /\ queuedIceCandidates = <<>>
  /\ operations = <<>>
  /\ listening = TRUE
  /\ connectionStatus = "Connected, waiting for peer..."
  /\ faults = 0
  /\ delivered = 0
  /\ arrived = <<>>
  /\ pcLog = <<>>
  /\ outbox = <<>>
  /\ lastEvent = [ev |-> "init", sdp |-> NoData, cand |-> 0]

\* a Room component's session when its RTCPeerConnection has been created
\* (lines 373-375)
PeerFresh ==
  [pcCurrent |-> TRUE, signalingState |-> "stable",
   remoteDescription |-> NoDescription, localDescription |-> NoDescription,
   queuedIceCandidates |-> <<>>, operations |-> <<>>, listening |-> TRUE,
   gathered |-> 0]

\* every component fresh, nothing in flight
SystemFresh ==
  /\ peers = [s \in Sockets |-> PeerFresh]
  /\ toRelay = [s \in Sockets |-> <<>>]
  /\ toClient = [s \in Sockets |-> <<>>]

\* the relay before any connection
RelayFresh ==
  /\ status = [s \in Sockets |-> "idle"]
  /\ currentRoom = [s \in Sockets |-> undefined]
  /\ rooms = [r \in RoomNames |-> {}]
  /\ sent = <<>>
  /\ last = [op |-> "init", socket |-> NoSocket, input |-> EmptyInput,
             ev |-> NoData, data |-> NoData]

(* ------------------------------ helpers -------------------------------- *)
\* JavaScript truthiness of a string | undefined value
Truthy(x) == x # undefined /\ x # ""

\* const targetRoom = String(roomIdInput || "default_fallback_room")
TargetRoom(roomIdInput) ==
  IF Truthy(roomIdInput) THEN roomIdInput ELSE DefaultFallbackRoom

\* clientsInRoom ? clientsInRoom.size : 0
NumClients(rs, room) == Cardinality(rs[room])

\* socket.leave(room) / socket.join(room) on the in-memory adapter
SocketLeave(rs, s, room) == [rs EXCEPT ![room] = @ \ {s}]
SocketJoin(rs, s, room) == [rs EXCEPT ![room] = @ \cup {s}]
\* socket.io removes a closing socket from every room before "disconnect" fires
LeaveAllEvictingRoom(rs, s) == [r \in RoomNames |-> IF s \in rs[r] THEN {} ELSE rs[r]]
LeaveNone(rs, s) == rs
LeaveAll(rs, s) == [r \in RoomNames |-> rs[r] \ {s}]

\* socket.emit(ev, data): to the socket itself
Direct(s, ev, data) == [ev |-> ev, data |-> data, room |-> undefined, to |-> {s}]

\* recipients of socket.to(room).emit(...): every member of room but the sender
BroadcastAll(rs, s, room) == rs[room]
ToRoom(rs, s, room) == rs[room] \ {s}

\* socket.to(room).emit(ev, data)
Broadcast(rs, s, room, ev, data) ==
  [ev |-> ev, data |-> data, room |-> room, to |-> ToRoom(rs, s, room)]

\* which handler ran last, on which socket, with which arguments
Mark(op, s, input, ev, data) ==
  [op |-> op, socket |-> s, input |-> input, ev |-> ev, data |-> data]

(* ------------------------------- Init ---------------------------------- *)
Init ==
  /\ status = [s \in Sockets |-> "idle"]
  /\ currentRoom = [s \in Sockets |-> undefined]
  /\ rooms = [r \in RoomNames |-> {}]
  /\ sent = <<>>
  /\ last = Mark("init", NoSocket, EmptyInput, NoData, NoData)
  /\ ClientFresh
  /\ SystemFresh

(* ------------------------------ actions -------------------------------- *)
\* io.on("connection", (socket) => ...): a new socket, no room, no data
Connection(s) ==
  /\ status[s] = "idle"
  /\ status' = [status EXCEPT ![s] = "connected"]
  /\ sent' = <<>>
  /\ last' = Mark("connection", s, EmptyInput, NoData, NoData)
  /\ UNCHANGED <<currentRoom, rooms>>
  /\ UNCHANGED clientVars

\* if (previousRoom && previousRoom !== targetRoom)
KeepsPrevious(previousRoom, targetRoom) == FALSE
LeavesPrevious(previousRoom, targetRoom) ==
  Truthy(previousRoom) /\ previousRoom # targetRoom

\* if (numClients >= 2)
RoomFullOffByOne(numClients) == numClients > 2
RoomFull(numClients) == numClients >= 2

\* the role signals of lines 78-90, given the room set after socket.join
RoleSignalsSwapped(rs, s, targetRoom) ==
  IF NumClients(rs, targetRoom) = 2
  THEN << Broadcast(rs, s, targetRoom, "initiate_offer", NoData),
          Direct(s, "peer_ready", NoData) >>
  ELSE <<>>
RoleSignalsEager(rs, s, targetRoom) ==
  IF NumClients(rs, targetRoom) >= 1
  THEN << Direct(s, "initiate_offer", NoData),
          Broadcast(rs, s, targetRoom, "peer_ready", NoData) >>
  ELSE <<>>
RoleSignals(rs, s, targetRoom) ==
  IF NumClients(rs, targetRoom) = 2
  THEN << Direct(s, "initiate_offer", NoData),
          Broadcast(rs, s, targetRoom, "peer_ready", NoData) >>
  ELSE <<>>

\* the emissions of a join that goes through, in statement order: the
\* notification of the previous room (line 54), then the role signals (87-90)
JoinSignalsRolesFirst(leaveSignals, roleSignals) == roleSignals \o leaveSignals
JoinSignals(leaveSignals, roleSignals) == leaveSignals \o roleSignals

\* socket.on("join", (roomIdInput) => ...)
Join(s, roomIdInput) ==
  /\ status[s] = "connected"
  /\ LET targetRoom == TargetRoom(roomIdInput)
         previousRoom == currentRoom[s]
         leaving == LeavesPrevious(previousRoom, targetRoom)
         sent1 == IF leaving
                  THEN << Broadcast(rooms, s, previousRoom, "peer_disconnected", NoData) >>
                  ELSE <<>>
         rooms1 == IF leaving THEN SocketLeave(rooms, s, previousRoom) ELSE rooms
         numClients == NumClients(rooms1, targetRoom)
         rooms2 == SocketJoin(rooms1, s, targetRoom)
     IN IF RoomFull(numClients)
        THEN /\ rooms' = rooms1
             /\ sent' = sent1
             /\ UNCHANGED currentRoom
        ELSE /\ rooms' = rooms2
             /\ currentRoom' = [currentRoom EXCEPT ![s] = targetRoom]
             /\ sent' = JoinSignals(sent1, RoleSignals(rooms2, s, targetRoom))
  /\ last' = Mark("join", s, roomIdInput, NoData, NoData)
  /\ UNCHANGED status
  /\ UNCHANGED clientVars

\* the body of forwardEvent: if (currentRoom) socket.to(currentRoom).emit(...)
ForwardSignalsNoPayload(rs, s, room, eventName, data) ==
  IF Truthy(room) THEN << Broadcast(rs, s, room, eventName, NoData) >> ELSE <<>>
ForwardSignals(rs, s, room, eventName, data) ==
  IF Truthy(room) THEN << Broadcast(rs, s, room, eventName, data) >> ELSE <<>>

\* forwardEvent(eventName, data), reached from the "offer", "answer" and
\* "ice-candidate" handlers.  It is also run for a socket that has
\* disconnected, on the socket.data the disconnect handler left: socket.io
\* discards such a packet, so this only adds behaviours to be checked
Forward(s, eventName, data) ==
  /\ status[s] \in {"connected", "disconnected"}
  /\ sent' = ForwardSignals(rooms, s, currentRoom[s], eventName, data)
  /\ last' = Mark("forward", s, EmptyInput, eventName, data)
  /\ UNCHANGED <<status, currentRoom, rooms>>
  /\ UNCHANGED clientVars

\* socket.data.currentRoom = undefined  (line 137)
KeepCurrentRoom(cr, s) == cr
ClearCurrentRoom(cr, s) == [cr EXCEPT ![s] = undefined]

\* if (currentRoom) socket.to(currentRoom).emit("peer_disconnected")
DisconnectSilent(rs, s, room) == <<>>
DisconnectSignals(rs, s, room) ==
  IF Truthy(room)
  THEN << Broadcast(rs, s, room, "peer_disconnected", NoData) >>
  ELSE <<>>

\* socket.on("disconnect", () => ...)
Disconnect(s) ==
  /\ status[s] = "connected"
  /\ LET rooms1 == LeaveAll(rooms, s)
     IN /\ rooms' = rooms1
        /\ sent' = DisconnectSignals(rooms1, s, currentRoom[s])
  /\ currentRoom' = ClearCurrentRoom(currentRoom, s)
  /\ status' = [status EXCEPT ![s] = "disconnected"]
  /\ last' = Mark("disconnect", s, EmptyInput, NoData, NoData)
  /\ UNCHANGED clientVars

Next ==
  \/ \E s \in Sockets : Connection(s) /\ UNCHANGED sysVars
  \/ \E s \in Sockets, roomIdInput \in RoomInputs :
       Join(s, roomIdInput) /\ UNCHANGED sysVars
  \/ \E s \in Sockets, eventName \in ForwardEvents, data \in Payloads :
       Forward(s, eventName, data) /\ UNCHANGED sysVars
  \/ \E s \in Sockets : Disconnect(s) /\ UNCHANGED sysVars

Spec == Init /\ [][Next]_vars

(* ---------------------- the participant: Room.tsx ---------------------- *)
\* number of events (socket events, icecandidate events) delivered to the
\* participant during a run
MaxEvents == 4
\* number of different candidates the peer sends
NumCandidates == 3

\* RTCIceCandidateInit; candidates are numbered in the order they first arrive
CandidateInit(k) == [candidate |-> k]
NoCandidate == CandidateInit(0)
SeenCandidates == {arrived[i].cand : i \in 1..Len(arrived)}
NextCandidates == {k \in 1..NumCandidates : k <= Cardinality(SeenCandidates) + 1}

\* RTCSessionDescriptionInit received from the peer / produced by the connection
RemoteOffer(d) == [type |-> "offer", sdp |-> d]
RemoteAnswer(d) == [type |-> "answer", sdp |-> d]
LocalOffer == [type |-> "offer", sdp |-> "local"]
LocalAnswer == [type |-> "answer", sdp |-> "local"]
Described(desc) == desc.type # "null"

\* an entry of the operations chain: the awaited call, and the function and
\* place that continue when it settles
Op(op, desc, cand, fn, at, rest) ==
  [op |-> op, desc |-> desc, cand |-> cand, fn |-> fn, at |-> at, rest |-> rest]

\* entries of pcLog
Called(op, desc, k, via) ==
  [kind |-> "call", op |-> op, desc |-> desc, cand |-> k, via |-> via]
Applied(op, desc, k, via) ==
  [kind |-> "applied", op |-> op, desc |-> desc, cand |-> k, via |-> via]
CallOf(o) ==
  Called(o.op, o.desc, o.cand.candidate, IF o.at = "loop" THEN "queue" ELSE "direct")

Note(ev, sdp, k) == [ev |-> ev, sdp |-> sdp, cand |-> k]

\* !peerConnection.current || peerConnection.current.signalingState === "closed"
\* is false
SessionOpenUnchecked == TRUE
SessionOpen == pcCurrent /\ signalingState # "closed"

\* queuedIceCandidates.current.some((c) => c.candidate === candidateInit.candidate)
IsQueuedAny(q, c) == q # <<>>
IsQueuedNever(q, c) == FALSE
IsQueued(q, c) == \E i \in 1..Len(q) : q[i].candidate = c.candidate

\* queuedIceCandidates.current.push(candidateInit)
EnqueueFront(q, c) == <<c>> \o q
Enqueue(q, c) == Append(q, c)

\* if (!peerConnection.current.remoteDescription)   (line 440)
MustQueueAlways == TRUE
MustQueue == ~Described(remoteDescription)

\* socket.on("ice-candidate", handleIceCandidate)   (lines 432-463)
HandleIceCandidate(k) ==
  /\ listening /\ delivered < MaxEvents
  /\ k \in NextCandidates
  /\ delivered' = delivered + 1
  /\ lastEvent' = Note("ice-candidate", NoData, k)
  /\ arrived' = Append(arrived, [cand |-> k,
                                 remoteSet |-> Described(remoteDescription),
                                 open |-> pcCurrent /\ signalingState # "closed",
                                 answered |-> \E i \in 1..Len(outbox) :
                                                outbox[i].ev = "answer"])
  /\ LET c == CandidateInit(k)
     IN IF ~SessionOpen
        THEN UNCHANGED <<queuedIceCandidates, operations, pcLog>>
        ELSE IF MustQueue
        THEN /\ queuedIceCandidates' =
                  IF IsQueued(queuedIceCandidates, c)
                  THEN queuedIceCandidates
                  ELSE Enqueue(queuedIceCandidates, c)
             /\ UNCHANGED <<operations, pcLog>>
        ELSE LET o == Op("addIceCandidate", NoDescription, c,
                         "handleIceCandidate", "done", <<>>)
             IN /\ operations' = Append(operations, o)
                /\ pcLog' = Append(pcLog, CallOf(o))
                /\ UNCHANGED queuedIceCandidates
  /\ UNCHANGED <<pcCurrent, signalingState, remoteDescription,
                 localDescription, listening, connectionStatus, outbox>>
  /\ UNCHANGED <<relayVars, sysVars, faults>>

\* the state guard of createAnswer (lines 261-268)
AnswerableState(sig) ==
  sig \in {"stable", "have-remote-offer", "have-local-offer"}

\* socket.on("offer", handleOffer)   (lines 465-476), into createAnswer up to
\* its first await (lines 257-275)
HandleOffer(d) ==
  /\ listening /\ delivered < MaxEvents
  /\ delivered' = delivered + 1
  /\ lastEvent' = Note("offer", d, 0)
  /\ IF SessionOpen /\ ~Described(remoteDescription)
        /\ AnswerableState(signalingState)
     THEN LET o == Op("setRemoteDescription", RemoteOffer(d), NoCandidate,
                      "createAnswer", "drain", <<>>)
          IN /\ operations' = Append(operations, o)
             /\ pcLog' = Append(pcLog, CallOf(o))
             /\ connectionStatus' = "Received offer, creating answer..."
     ELSE UNCHANGED <<operations, pcLog, connectionStatus>>
  /\ UNCHANGED <<pcCurrent, signalingState, remoteDescription,
                 localDescription, queuedIceCandidates, listening,
                 arrived, outbox>>
  /\ UNCHANGED <<relayVars, sysVars, faults>>

\* the guard of handleAnswer (lines 479-484), negated
AwaitingAnswerUnchecked == pcCurrent
AwaitingAnswerOrSettled ==
  pcCurrent /\ signalingState \in {"have-local-offer", "stable"}
AwaitingAnswer == pcCurrent /\ signalingState = "have-local-offer"

\* socket.on("answer", handleAnswer)   (lines 478-494) up to its first await
HandleAnswer(d) ==
  /\ listening /\ delivered < MaxEvents
  /\ delivered' = delivered + 1
  /\ lastEvent' = Note("answer", d, 0)
  /\ IF AwaitingAnswer
     THEN LET o == Op("setRemoteDescription", RemoteAnswer(d), NoCandidate,
                      "handleAnswer", "drain", <<>>)
          IN /\ operations' = Append(operations, o)
             /\ pcLog' = Append(pcLog, CallOf(o))
             /\ connectionStatus' = "Received answer, connecting..."
     ELSE UNCHANGED <<operations, pcLog, connectionStatus>>
  /\ UNCHANGED <<pcCurrent, signalingState, remoteDescription,
                 localDescription, queuedIceCandidates, listening,
                 arrived, outbox>>
  /\ UNCHANGED <<relayVars, sysVars, faults>>

\* the guard of handleInitiateOffer (lines 497-503), negated
MayInitiateAnyState == pcCurrent /\ ~Described(remoteDescription)
MayInitiate ==
  pcCurrent /\ signalingState = "stable" /\ ~Described(remoteDescription)

\* socket.on("initiate_offer", handleInitiateOffer)   (lines 496-505), into
\* createOffer up to its first await (lines 234-245)
HandleInitiateOffer ==
  /\ listening /\ delivered < MaxEvents
  /\ delivered' = delivered + 1
  /\ lastEvent' = Note("initiate_offer", NoData, 0)
  /\ IF MayInitiate
     THEN LET o == Op("createOffer", NoDescription, NoCandidate,
                      "createOffer", "recheck", <<>>)
          IN /\ operations' = Append(operations, o)
             /\ pcLog' = Append(pcLog, CallOf(o))
             /\ connectionStatus' = "Creating offer..."
     ELSE UNCHANGED <<operations, pcLog, connectionStatus>>
  /\ UNCHANGED <<pcCurrent, signalingState, remoteDescription,
                 localDescription, queuedIceCandidates, listening,
                 arrived, outbox>>
  /\ UNCHANGED <<relayVars, sysVars, faults>>

\* the calls handlePeerReady makes on the connection (lines 507-509): none
PeerReadyCallsCreateOffer ==
  IF MayInitiate
  THEN << Op("createOffer", NoDescription, NoCandidate,
             "createOffer", "recheck", <<>>) >>
  ELSE <<>>
PeerReadyCalls == <<>>

\* socket.on("peer_ready", handlePeerReady)   (lines 507-509): status text only
HandlePeerReady ==
  /\ listening /\ delivered < MaxEvents
  /\ delivered' = delivered + 1
  /\ lastEvent' = Note("peer_ready", NoData, 0)
  /\ connectionStatus' = "Peer detected, waiting for offer..."
  /\ operations' = operations \o PeerReadyCalls
  /\ pcLog' = pcLog \o [i \in 1..Len(PeerReadyCalls) |-> CallOf(PeerReadyCalls[i])]
  /\ UNCHANGED <<pcCurrent, signalingState, remoteDescription,
                 localDescription, queuedIceCandidates,
                 listening, arrived, outbox>>
  /\ UNCHANGED <<relayVars, sysVars, faults>>

\* queuedIceCandidates.current = []   (lines 527, 354)
DiscardQueueSkipped(q) == q
DiscardQueue(q) == <<>>

\* socket.on("peer_disconnected", handlePeerDisconnected)   (lines 511-528):
\* close() moves the connection to "closed" and keeps its descriptions
HandlePeerDisconnected ==
  /\ listening /\ delivered < MaxEvents
  /\ delivered' = delivered + 1
  /\ lastEvent' = Note("peer_disconnected", NoData, 0)
  /\ connectionStatus' = "Peer disconnected"
  /\ IF pcCurrent
     THEN /\ signalingState' = "closed"
          /\ queuedIceCandidates' = DiscardQueue(queuedIceCandidates)
     ELSE UNCHANGED <<signalingState, queuedIceCandidates>>
  /\ UNCHANGED <<pcCurrent, remoteDescription, localDescription, operations,
                 listening, arrived, pcLog, outbox>>
  /\ UNCHANGED <<relayVars, sysVars, faults>>

\* leaveRoom (lines 164-194): close the connection, drop the reference,
\* disconnect the socket, navigate away; leaving the page runs the clean-up
\* of both effects (lines 338-357, 537-545), which empties the queue and
\* removes the listeners
LeaveRoom ==
  /\ listening
  /\ lastEvent' = Note("leaveRoom", NoData, 0)
  /\ pcCurrent' = FALSE
  /\ signalingState' = "closed"
  /\ queuedIceCandidates' = DiscardQueue(queuedIceCandidates)
  /\ listening' = FALSE
  /\ UNCHANGED <<remoteDescription, localDescription, operations,
                 connectionStatus, delivered, arrived, pcLog, outbox>>
  /\ UNCHANGED <<relayVars, sysVars, faults>>

\* the signaling states in which RTCPeerConnection stores an offer as local
\* description (setLocalDescription(offer), line 249)
LocalOfferAllowedAlways(sig) == TRUE
LocalOfferAllowed(sig) == sig \in {"stable", "have-local-offer"}

\* What RTCPeerConnection does with the operation at the head of its chain.
\* A closed connection refuses it.  An offer set as remote description
\* while a local offer is pending is either refused (InvalidStateError) or
\* accepted after an implicit rollback, depending on the browser.
PcSettle(o, rollback) ==
  LET keep == [ok |-> FALSE, sig |-> signalingState,
               remote |-> remoteDescription, local |-> localDescription]
  IN CASE signalingState = "closed" -> keep
       [] o.op = "createOffer" -> [keep EXCEPT !.ok = TRUE]
       [] o.op = "createAnswer" ->
            [keep EXCEPT !.ok = (signalingState = "have-remote-offer")]
       [] o.op = "addIceCandidate" ->
            [keep EXCEPT !.ok = Described(remoteDescription)]
       [] o.op = "setLocalDescription" /\ o.desc.type = "offer" ->
            IF LocalOfferAllowed(signalingState)
            THEN [ok |-> TRUE, sig |-> "have-local-offer",
                  remote |-> remoteDescription, local |-> o.desc]
            ELSE keep
       [] o.op = "setLocalDescription" /\ o.desc.type = "answer" ->
            IF signalingState = "have-remote-offer"
            THEN [ok |-> TRUE, sig |-> "stable",
                  remote |-> remoteDescription, local |-> o.desc]
            ELSE keep
       [] o.op = "setRemoteDescription" /\ o.desc.type = "offer" ->
            IF signalingState \in {"stable", "have-remote-offer"}
            THEN [ok |-> TRUE, sig |-> "have-remote-offer",
                  remote |-> o.desc, local |-> localDescription]
            ELSE IF rollback
            THEN [ok |-> TRUE, sig |-> "have-remote-offer",
                  remote |-> o.desc, local |-> NoDescription]
            ELSE keep
       [] o.op = "setRemoteDescription" /\ o.desc.type = "answer" ->
            IF signalingState = "have-local-offer"
            THEN [ok |-> TRUE, sig |-> "stable",
                  remote |-> o.desc, local |-> localDescription]
            ELSE keep

\* if (peerConnection.current.signalingState === "have-remote-offer")  (line 278)
AnswerAlways(sig) == TRUE
AnswerDue(sig) == sig = "have-remote-offer"

\* what the caller of processQueuedCandidates does when it returns:
\* createAnswer goes on to lines 278-282, handleAnswer is finished
AfterDrain(fn, sig) ==
  IF fn = "createAnswer" /\ AnswerDue(sig)
  THEN << Op("createAnswer", NoDescription, NoCandidate,
             "createAnswer", "setLocal", <<>>) >>
  ELSE <<>>

\* peerConnection.current?.remoteDescription &&
\* peerConnection.current.signalingState !== "closed"   (lines 208-211)
MayApplyUnchecked(sig, remote) == pcCurrent /\ Described(remote)
MayApply(sig, remote) == pcCurrent /\ Described(remote) /\ sig # "closed"

\* the for loop of processQueuedCandidates (lines 207-229) from the
\* candidates still to process up to its next await
DrainLoopOnce(fn, cands, sig, remote) ==
  IF cands # <<>> /\ MayApply(sig, remote)
  THEN << Op("addIceCandidate", NoDescription, Head(cands), fn, "loop", <<>>) >>
  ELSE AfterDrain(fn, sig)
DrainLoop(fn, cands, sig, remote) ==
  IF cands # <<>> /\ MayApply(sig, remote)
  THEN << Op("addIceCandidate", NoDescription, Head(cands), fn, "loop",
             Tail(cands)) >>
  ELSE AfterDrain(fn, sig)

\* the drain after the await of a queued candidate (lines 212-229): the catch
\* block around addIceCandidate only logs, and the loop goes on with the
\* remaining candidates
AfterCandidateAborting(o, r) ==
  IF r.ok THEN DrainLoop(o.fn, o.rest, r.sig, r.remote) ELSE <<>>
AfterCandidate(o, r) == DrainLoop(o.fn, o.rest, r.sig, r.remote)

\* what the awaiting function chains next once operation o has settled with
\* result r (at most one call, since it then awaits again)
Continue(o, r) ==
  CASE o.at = "drain" ->
         IF ~r.ok THEN <<>>
         ELSE IF ~pcCurrent \/ ~Described(r.remote) \/ queuedIceCandidates = <<>>
         THEN AfterDrain(o.fn, r.sig)
         ELSE DrainLoop(o.fn, queuedIceCandidates, r.sig, r.remote)
    [] o.at = "loop" -> AfterCandidate(o, r)
    [] o.at = "setLocal" ->
         IF r.ok
         THEN << Op("setLocalDescription", LocalAnswer, NoCandidate,
                    "createAnswer", "emit", <<>>) >>
         ELSE <<>>
    [] o.at = "recheck" ->
         IF r.ok /\ r.sig = "stable"
         THEN << Op("setLocalDescription", LocalOffer, NoCandidate,
                    "createOffer", "emit", <<>>) >>
         ELSE <<>>
    [] OTHER -> <<>>

\* const candidatesToProcess = [...queue]; queue = []   (lines 205-206)
QueueAfterKept(o, r) == queuedIceCandidates
QueueAfter(o, r) ==
  IF o.at = "drain" /\ r.ok /\ pcCurrent /\ Described(r.remote)
  THEN <<>>
  ELSE queuedIceCandidates

\* socket.emit("offer", offer) / socket.emit("answer", answer)
EmissionUnchecked(o, r) ==
  IF o.at = "emit"
  THEN << [ev |-> o.desc.type, sdp |-> o.desc.sdp] >>
  ELSE <<>>
Emission(o, r) ==
  IF o.at = "emit" /\ r.ok
  THEN << [ev |-> o.desc.type, sdp |-> o.desc.sdp] >>
  ELSE <<>>

\* event.candidate && peerConnection.current?.signalingState !== "closed"
\* (lines 424-427), for an event that carries a candidate
MayEmitCandidate == ~pcCurrent \/ signalingState # "closed"

\* peerConnection.current.onicecandidate (lines 421-430).  The connection
\* gathers candidates once it has stored a local description, and fires no
\* event after it was closed.
OnIceCandidate ==
  /\ pcCurrent /\ signalingState # "closed" /\ Described(localDescription)
  /\ delivered < MaxEvents
  /\ delivered' = delivered + 1
  /\ lastEvent' = Note("icecandidate", NoData, 0)
  /\ outbox' = IF MayEmitCandidate
               THEN Append(outbox, [ev |-> "ice-candidate", sdp |-> LocalOffer.sdp])
               ELSE outbox
  /\ UNCHANGED <<pcCurrent, signalingState, remoteDescription,
                 localDescription, queuedIceCandidates, operations,
                 listening, connectionStatus, arrived, pcLog>>
  /\ UNCHANGED <<relayVars, sysVars, faults>>

\* the catch blocks: a refused call surfaces as status text in createOffer
\* (line 253), createAnswer (285) and handleAnswer (492); the catch blocks
\* around addIceCandidate (217-227, 455-462) only log
StatusAfterSilent(o, r) == connectionStatus
StatusAfter(o, r) ==
  IF r.ok \/ o.op = "addIceCandidate" THEN connectionStatus
  ELSE IF o.fn = "createOffer" THEN "Error creating offer"
  ELSE IF o.fn = "createAnswer" THEN "Error handling offer"
  ELSE "Error handling answer"

\* The operation at the head of the chain settles and the function awaiting
\* it runs on to its next await.
OperationSettles(rollback) ==
  /\ operations # <<>>
  /\ LET o == Head(operations)
         r == PcSettle(o, rollback)
         next == Continue(o, r)
         via == IF o.at = "loop" THEN "queue" ELSE "direct"
         done == IF r.ok /\ o.op \in {"addIceCandidate", "setLocalDescription",
                                      "setRemoteDescription"}
                 THEN << Applied(o.op, o.desc, o.cand.candidate, via) >>
                 ELSE <<>>
     IN /\ signalingState' = r.sig
        /\ remoteDescription' = r.remote
        /\ localDescription' = r.local
        /\ queuedIceCandidates' = QueueAfter(o, r)
        /\ operations' = Tail(operations) \o next
        /\ pcLog' = pcLog \o done \o [i \in 1..Len(next) |-> CallOf(next[i])]
        /\ outbox' = outbox \o Emission(o, r)
        /\ connectionStatus' = StatusAfter(o, r)
        /\ lastEvent' = Note(IF r.ok THEN "settled" ELSE "rejected",
                             o.desc.sdp, o.cand.candidate)
  /\ UNCHANGED <<pcCurrent, listening, delivered, arrived>>
  /\ UNCHANGED <<relayVars, sysVars, faults>>

\* On a closed connection a pending operation may also never settle, and the
\* function awaiting it then never resumes.
OperationAbandoned ==
  /\ operations # <<>>
  /\ signalingState = "closed"
  /\ operations' = Tail(operations)
  /\ lastEvent' = Note("abandoned", NoData, 0)
  /\ UNCHANGED <<pcCurrent, signalingState, remoteDescription,
                 localDescription, queuedIceCandidates, listening,
                 connectionStatus, delivered, arrived, pcLog, outbox>>
  /\ UNCHANGED <<relayVars, sysVars, faults>>

\* the outcome of a call the connection rejects for a reason other than its
\* state (a description or candidate it cannot parse or apply, an internal
\* error): nothing is stored
PcFail ==
  [ok |-> FALSE, sig |-> signalingState,
   remote |-> remoteDescription, local |-> localDescription]

\* The operation at the head of the chain of an open connection is rejected
\* for such a reason, and the function awaiting it runs on from its catch
\* block to its next await.
OperationFails ==
  /\ operations # <<>>
  /\ signalingState # "closed"
  /\ faults < MaxFaults
  /\ faults' = faults + 1
  /\ LET o == Head(operations)
         r == PcFail
         next == Continue(o, r)
     IN /\ queuedIceCandidates' = QueueAfter(o, r)
        /\ operations' = Tail(operations) \o next
        /\ pcLog' = pcLog \o [i \in 1..Len(next) |-> CallOf(next[i])]
        /\ outbox' = outbox \o Emission(o, r)
        /\ connectionStatus' = StatusAfter(o, r)
        /\ lastEvent' = Note("failed", o.desc.sdp, o.cand.candidate)
  /\ UNCHANGED <<pcCurrent, signalingState, remoteDescription,
                 localDescription, listening, delivered, arrived>>
  /\ UNCHANGED <<relayVars, sysVars>>

ClientInit == RelayFresh /\ ClientFresh /\ SystemFresh

ClientNext ==
  \/ \E k \in 1..NumCandidates : HandleIceCandidate(k)
  \/ \E d \in Payloads : HandleOffer(d)
  \/ \E d \in Payloads : HandleAnswer(d)
  \/ HandleInitiateOffer
  \/ HandlePeerReady
  \/ HandlePeerDisconnected
  \/ LeaveRoom
  \/ \E rollback \in BOOLEAN : OperationSettles(rollback)
  \/ OperationAbandoned
  \/ OnIceCandidate

ClientSpec == ClientInit /\ [][ClientNext]_vars

\* the participant of an open session with a connection whose calls may also
\* fail: the peer stays and the user does not leave
FaultNext ==
  \/ \E k \in 1..NumCandidates : HandleIceCandidate(k)
  \/ \E d \in Payloads : HandleOffer(d)
  \/ \E d \in Payloads : HandleAnswer(d)
  \/ HandleInitiateOffer
  \/ HandlePeerReady
  \/ \E rollback \in BOOLEAN : OperationSettles(rollback)
  \/ OnIceCandidate
  \/ OperationFails

FaultSpec == ClientInit /\ [][FaultNext]_vars

(* ------------------- the relay with its participants ------------------- *)
\* the roomId route parameter of a Room component (line 60; never empty,
\* lines 293-296)
RoomIds == {"room" \o ToString(i) : i \in 1..NumRooms}

\* the descriptions and candidates the connection of socket s creates
OfferOf(s) == [type |-> "offer", sdp |-> ToString(s)]
AnswerOf(s) == [type |-> "answer", sdp |-> ToString(s)]
CandidateOf(s, i) == [candidate |-> ToString(s) \o "/" \o ToString(i)]

\* the candidate field of an operation that is not addIceCandidate
NoCandidateYet == [candidate |-> NoData]

\* a packet between a component and the relay
Packet(ev, data) == [ev |-> ev, data |-> data]

\* !peerConnection.current || peerConnection.current.signalingState === "closed"
\* is false
PeerSessionOpen(p) == p.pcCurrent /\ p.signalingState # "closed"

\* handleIceCandidate (lines 432-463) up to its await
PeerHandleIceCandidate(p, data) ==
  LET c == [candidate |-> data]
  IN IF ~PeerSessionOpen(p) THEN p
     ELSE IF ~Described(p.remoteDescription)
     THEN [p EXCEPT !.queuedIceCandidates =
                      IF IsQueued(@, c) THEN @ ELSE Enqueue(@, c)]
     ELSE [p EXCEPT !.operations =
                      Append(@, Op("addIceCandidate", NoDescription, c,
                                   "handleIceCandidate", "done", <<>>))]

\* handleOffer (lines 465-476) into createAnswer up to its first await
\* (lines 257-275)
PeerHandleOffer(p, data) ==
  IF PeerSessionOpen(p) /\ ~Described(p.remoteDescription)
     /\ AnswerableState(p.signalingState)
  THEN [p EXCEPT !.operations =
                   Append(@, Op("setRemoteDescription", RemoteOffer(data),
                                NoCandidateYet, "createAnswer", "drain", <<>>))]
  ELSE p

\* handleAnswer (lines 478-494) up to its first await
PeerHandleAnswer(p, data) ==
  IF p.pcCurrent /\ p.signalingState = "have-local-offer"
  THEN [p EXCEPT !.operations =
                   Append(@, Op("setRemoteDescription", RemoteAnswer(data),
                                NoCandidateYet, "handleAnswer", "drain", <<>>))]
  ELSE p

\* handleInitiateOffer (lines 496-505) into createOffer up to its first
\* await (lines 234-245)
PeerHandleInitiateOffer(p) ==
  IF p.pcCurrent /\ p.signalingState = "stable"
     /\ ~Described(p.remoteDescription)
  THEN [p EXCEPT !.operations =
                   Append(@, Op("createOffer", NoDescription, NoCandidateYet,
                                "createOffer", "recheck", <<>>))]
  ELSE p

\* handlePeerDisconnected (lines 511-528)
PeerHandlePeerDisconnected(p) ==
  IF p.pcCurrent
  THEN [p EXCEPT !.signalingState = "closed", !.queuedIceCandidates = <<>>]
  ELSE p

\* the listener registered for event ev (lines 530-535); handlePeerReady
\* (507-509) sets the status text only, and other events have no listener
PeerListener(p, ev, data) ==
  CASE ev = "ice-candidate" -> PeerHandleIceCandidate(p, data)
    [] ev = "offer" -> PeerHandleOffer(p, data)
    [] ev = "answer" -> PeerHandleAnswer(p, data)
    [] ev = "initiate_offer" -> PeerHandleInitiateOffer(p)
    [] ev = "peer_disconnected" -> PeerHandlePeerDisconnected(p)
    [] OTHER -> p

\* what the RTCPeerConnection of session p does with operation o (as
\* PcSettle)
PeerPcSettle(p, o, rollback) ==
  LET keep == [ok |-> FALSE, sig |-> p.signalingState,
               remote |-> p.remoteDescription, local |-> p.localDescription]
  IN CASE p.signalingState = "closed" -> keep
       [] o.op = "createOffer" -> [keep EXCEPT !.ok = TRUE]
       [] o.op = "createAnswer" ->
            [keep EXCEPT !.ok = (p.signalingState = "have-remote-offer")]
       [] o.op = "addIceCandidate" ->
            [keep EXCEPT !.ok = Described(p.remoteDescription)]
       [] o.op = "setLocalDescription" /\ o.desc.type = "offer" ->
            IF LocalOfferAllowed(p.signalingState)
            THEN [keep EXCEPT !.ok = TRUE, !.sig = "have-local-offer",
                              !.local = o.desc]
            ELSE keep
       [] o.op = "setLocalDescription" /\ o.desc.type = "answer" ->
            IF p.signalingState = "have-remote-offer"
            THEN [keep EXCEPT !.ok = TRUE, !.sig = "stable", !.local = o.desc]
            ELSE keep
       [] o.op = "setRemoteDescription" /\ o.desc.type = "offer" ->
            IF p.signalingState \in {"stable", "have-remote-offer"}
            THEN [keep EXCEPT !.ok = TRUE, !.sig = "have-remote-offer",
                              !.remote = o.desc]
            ELSE IF rollback
            THEN [keep EXCEPT !.ok = TRUE, !.sig = "have-remote-offer",
                              !.remote = o.desc, !.local = NoDescription]
            ELSE keep
       [] o.op = "setRemoteDescription" /\ o.desc.type = "answer" ->
            IF p.signalingState = "have-local-offer"
            THEN [keep EXCEPT !.ok = TRUE, !.sig = "stable", !.remote = o.desc]
            ELSE keep

\* what the caller of processQueuedCandidates does when it returns (as
\* AfterDrain)
PeerAfterDrain(fn, sig) ==
  IF fn = "createAnswer" /\ AnswerDue(sig)
  THEN << Op("createAnswer", NoDescription, NoCandidateYet,
             "createAnswer", "setLocal", <<>>) >>
  ELSE <<>>

\* the for loop of processQueuedCandidates (lines 207-229) from the
\* candidates still to process up to its next await
PeerDrainLoop(p, fn, cands, sig, remote) ==
  IF cands # <<>> /\ p.pcCurrent /\ Described(remote) /\ sig # "closed"
  THEN << Op("addIceCandidate", NoDescription, Head(cands), fn, "loop",
             Tail(cands)) >>
  ELSE PeerAfterDrain(fn, sig)

\* what the awaiting function of socket s chains next once operation o has
\* settled with result r (as Continue)
PeerContinue(s, p, o, r) ==
  CASE o.at = "drain" ->
         IF ~r.ok THEN <<>>
         ELSE IF ~p.pcCurrent \/ ~Described(r.remote)
                 \/ p.queuedIceCandidates = <<>>
         THEN PeerAfterDrain(o.fn, r.sig)
         ELSE PeerDrainLoop(p, o.fn, p.queuedIceCandidates, r.sig, r.remote)
    [] o.at = "loop" -> PeerDrainLoop(p, o.fn, o.rest, r.sig, r.remote)
    [] o.at = "setLocal" ->
         IF r.ok
         THEN << Op("setLocalDescription", AnswerOf(s), NoCandidateYet,
                    "createAnswer", "emit", <<>>) >>
         ELSE <<>>
    [] o.at = "recheck" ->
         IF r.ok /\ r.sig = "stable"
         THEN << Op("setLocalDescription", OfferOf(s), NoCandidateYet,
                    "createOffer", "emit", <<>>) >>
         ELSE <<>>
    [] OTHER -> <<>>

\* the session of socket s once the operation at the head of its chain has
\* settled and the function awaiting it has run on to its next await
PeerAfterSettle(s, p, rollback) ==
  LET o == Head(p.operations)
      r == PeerPcSettle(p, o, rollback)
  IN [p EXCEPT !.signalingState = r.sig,
               !.remoteDescription = r.remote,
               !.localDescription = r.local,
               !.queuedIceCandidates =
                  IF o.at = "drain" /\ r.ok /\ p.pcCurrent /\ Described(r.remote)
                  THEN <<>> ELSE @,
               !.operations = Tail(@) \o PeerContinue(s, p, o, r)]

\* socket.emit("offer", offer) / socket.emit("answer", answer) of that step
PeerEmission(p, rollback) ==
  LET o == Head(p.operations)
      out == Emission(o, PeerPcSettle(p, o, rollback))
  IN [i \in 1..Len(out) |-> Packet(out[i].ev, out[i].sdp)]

\* the packets the relay's last handler emitted to socket t, in order; a
\* socket whose component has gone receives nothing
PacketsFor(t, emitted) ==
  LET mine == SelectSeq(emitted, LAMBDA m : t \in m.to)
  IN IF peers[t].listening
     THEN [i \in 1..Len(mine) |-> Packet(mine[i].ev, mine[i].data)]
     ELSE <<>>

\* the relay has run a handler for the packet at the head of toRelay[s]
Relayed(s) ==
  /\ toRelay' = [toRelay EXCEPT ![s] = Tail(@)]
  /\ toClient' = [t \in Sockets |-> toClient[t] \o PacketsFor(t, sent')]
  /\ UNCHANGED peers

\* A browser opens the page of room roomId: socket.connect() (line 315),
\* the relay's "connection" handler, and the component's "connect" listener
\* emits "join" (lines 317-321).  Socket ids are given in order of
\* connection.
SysConnect(s, roomId) ==
  /\ \A t \in Sockets : t < s => status[t] # "idle"
  /\ Connection(s)
  /\ toRelay' = [toRelay EXCEPT ![s] = << Packet("join", roomId) >>]
  /\ UNCHANGED <<peers, toClient>>

\* the relay handles a "join" packet of socket s
RelayJoin(s) ==
  /\ toRelay[s] # <<>> /\ Head(toRelay[s]).ev = "join"
  /\ Join(s, Head(toRelay[s]).data)
  /\ Relayed(s)

\* the relay handles an "offer", "answer" or "ice-candidate" packet of s
RelayForward(s) ==
  /\ toRelay[s] # <<>> /\ Head(toRelay[s]).ev \in ForwardEvents
  /\ Forward(s, Head(toRelay[s]).ev, Head(toRelay[s]).data)
  /\ Relayed(s)

\* the relay notices that socket s has gone
RelayDisconnect(s) ==
  /\ toRelay[s] # <<>> /\ Head(toRelay[s]).ev = "disconnect"
  /\ Disconnect(s)
  /\ Relayed(s)

\* the component of socket s handles the next packet of the relay
PeerReceives(s) ==
  /\ toClient[s] # <<>> /\ peers[s].listening
  /\ peers' = [peers EXCEPT ![s] =
                 PeerListener(@, Head(toClient[s]).ev, Head(toClient[s]).data)]
  /\ toClient' = [toClient EXCEPT ![s] = Tail(@)]
  /\ UNCHANGED <<toRelay, relayVars, clientVars>>

\* the operation at the head of the chain of socket s settles (as
\* OperationSettles)
PeerSettles(s, rollback) ==
  /\ peers[s].operations # <<>>
  /\ peers' = [peers EXCEPT ![s] = PeerAfterSettle(s, @, rollback)]
  /\ toRelay' = [toRelay EXCEPT ![s] = @ \o PeerEmission(peers[s], rollback)]
  /\ UNCHANGED <<toClient, relayVars, clientVars>>

\* onicecandidate of socket s (lines 421-430), as OnIceCandidate
PeerGathers(s) ==
  /\ PeerSessionOpen(peers[s]) /\ Described(peers[s].localDescription)
  /\ peers[s].gathered < MaxGathered
  /\ peers' = [peers EXCEPT ![s].gathered = @ + 1]
  /\ toRelay' = [toRelay EXCEPT ![s] =
                   Append(@, Packet("ice-candidate",
                                    CandidateOf(s, peers[s].gathered + 1).candidate))]
  /\ UNCHANGED <<toClient, relayVars, clientVars>>

\* leaveRoom of socket s (lines 164-194) with the clean-up of both effects
\* (338-357, 537-545): the connection is closed and dropped, the listeners
\* are removed, and socket.disconnect() tells the relay.  What the closed
\* connection still had pending emits nothing any more.
PeerLeaves(s) ==
  /\ status[s] = "connected" /\ peers[s].listening
  /\ peers' = [peers EXCEPT ![s] =
                 [@ EXCEPT !.pcCurrent = FALSE, !.signalingState = "closed",
                           !.queuedIceCandidates = <<>>, !.operations = <<>>,
                           !.listening = FALSE]]
  /\ toRelay' = [toRelay EXCEPT ![s] = Append(@, Packet("disconnect", NoData))]
  /\ toClient' = [toClient EXCEPT ![s] = <<>>]
  /\ UNCHANGED <<relayVars, clientVars>>

SystemInit == RelayFresh /\ ClientFresh /\ SystemFresh

SystemNext ==
  \/ \E s \in Sockets, roomId \in RoomIds : SysConnect(s, roomId)
  \/ \E s \in Sockets : RelayJoin(s)
  \/ \E s \in Sockets : RelayForward(s)
  \/ \E s \in Sockets : RelayDisconnect(s)
  \/ \E s \in Sockets : PeerReceives(s)
  \/ \E s \in Sockets, rollback \in BOOLEAN : PeerSettles(s, rollback)
  \/ \E s \in Sockets : PeerGathers(s)
  \/ \E s \in Sockets : PeerLeaves(s)

SystemSpec == SystemInit /\ [][SystemNext]_vars

\* The relay and the components when nobody disconnects or leaves: the
\* steps left are the handling of a packet that has arrived, the settling
\* of a pending RTCPeerConnection operation and the gathering of a
\* candidate.  The event loops of the relay (lines 45-139) and of the
\* browsers never stop while one of these is due, hence the weak fairness.
LiveNext ==
  \/ \E s \in Sockets, roomId \in RoomIds : SysConnect(s, roomId)
  \/ \E s \in Sockets : RelayJoin(s)
  \/ \E s \in Sockets : RelayForward(s)
  \/ \E s \in Sockets : PeerReceives(s)
  \/ \E s \in Sockets, rollback \in BOOLEAN : PeerSettles(s, rollback)
  \/ \E s \in Sockets : PeerGathers(s)

LiveSpec == SystemInit /\ [][LiveNext]_vars /\ WF_vars(LiveNext)

ClientTypeOK ==
  /\ signalingState \in {"stable", "have-local-offer", "have-remote-offer", "closed"}
  /\ Len(operations) <= MaxEvents
  /\ delivered <= MaxEvents

(* --------------------------- observations ------------------------------ *)
Range(q) == {q[i] : i \in 1..Len(q)}

\* the emissions of the last handler that reach socket p
DeliveredTo(p) == {i \in 1..Len(sent) : p \in sent[i].to}
\* the sockets the last handler delivered anything to
Recipients == UNION {m.to : m \in Range(sent)}
\* the emissions of the last handler carrying event ev
Emitted(ev) == {i \in 1..Len(sent) : sent[i].ev = ev}

\* the rooms p is a member of
MemberOf(p) == {r \in RoomNames : p \in rooms[r]}

TypeOK ==
  /\ status \in [Sockets -> {"idle", "connected", "disconnected"}]
  /\ currentRoom \in [Sockets -> RoomNames \cup {undefined}]
  /\ rooms \in [RoomNames -> SUBSET Sockets]

\* the handler that ran last, as seen from the state it left
LastSocket == last.socket
LastTarget == TargetRoom(last.input)

(* ------------------------------- claims -------------------------------- *)
\* C1: after any interleaving of joins, forwards and disconnects by any
\* number of sockets, every room has at most 2 members.
C1_RoomCapacity ==
  \A r \in RoomNames : Cardinality(rooms[r]) <= 2

\* a third socket has just tried to join a room that holds two others
C1_Witness ==
  /\ last.op = "join"
  /\ Cardinality(rooms[LastTarget]) = 2
  /\ LastSocket \notin rooms[LastTarget]

\* C2: a join that takes a room from 1 member to 2 emits exactly one
\* initiate_offer and exactly one peer_ready; initiate_offer goes to the
\* joining socket alone, peer_ready to the socket that was already there
\* alone, and the joiner is not that socket.
C2_RolesOnFill ==
  [][\A r \in RoomNames :
       (last'.op = "join" /\ Cardinality(rooms[r]) = 1
                          /\ Cardinality(rooms'[r]) = 2)
       => /\ Cardinality(Emitted("initiate_offer")') = 1
          /\ Cardinality(Emitted("peer_ready")') = 1
          /\ \A i \in Emitted("initiate_offer")' : sent'[i].to = {last'.socket}
          /\ \A i \in Emitted("peer_ready")' : sent'[i].to = rooms[r]
          /\ last'.socket \notin rooms[r]
          /\ r = TargetRoom(last'.input)]_vars

\* a socket has left one room for another whose occupant it now pairs with
C2_Witness ==
  /\ last.op = "join"
  /\ LastSocket \in rooms[LastTarget]
  /\ Cardinality(rooms[LastTarget]) = 2
  /\ Emitted("initiate_offer") # {}
  /\ Emitted("peer_ready") # {}
  /\ Emitted("peer_disconnected") # {}

\* C3: a join aimed at a room that has 2 members leaves that room's member
\* set as it was and delivers nothing to either of its two members.
C3_FullRoomRejects ==
  [][(last'.op = "join" /\ Cardinality(rooms[TargetRoom(last'.input)]) = 2)
     => LET r == TargetRoom(last'.input)
        IN /\ rooms'[r] = rooms[r]
           /\ Cardinality(rooms'[r]) = 2
           /\ \A p \in rooms[r] : DeliveredTo(p)' = {}]_vars

\* an outsider that had a room of its own was turned away from a full room
C3_Witness ==
  /\ last.op = "join"
  /\ Cardinality(rooms[LastTarget]) = 2
  /\ LastSocket \notin rooms[LastTarget]
  /\ Truthy(currentRoom[LastSocket])
  /\ Emitted("peer_disconnected") # {}

\* C4: a join aimed at a room that has 2 members has no effect whatever,
\* also when the joiner is a member of another room: nothing is delivered
\* to anyone, no room's member set changes and no association changes.
C4_RejectedJoinNoSideEffects ==
  [][(last'.op = "join" /\ Cardinality(rooms[TargetRoom(last'.input)]) = 2)
     => /\ Recipients' = {}
        /\ rooms' = rooms
        /\ currentRoom' = currentRoom]_vars

\* C5: offer, answer or ice-candidate sent by a member of a room of two is
\* emitted once, with the same event name and the same payload, to the
\* other member of that room and to no one else.
C5_ForwardToPeerOnly ==
  [][\A r \in RoomNames :
       (last'.op = "forward" /\ last'.socket \in rooms[r]
                             /\ Cardinality(rooms[r]) = 2)
       => /\ Len(sent') = 1
          /\ sent'[1].ev = last'.ev
          /\ sent'[1].data = last'.data
          /\ sent'[1].to = rooms[r] \ {last'.socket}
          /\ Cardinality(Recipients') = 1
          /\ last'.socket \notin Recipients']_vars

\* an answer carrying payload "Y" has reached the sender's peer
C5_Witness ==
  /\ last.op = "forward"
  /\ last.ev = "answer"
  /\ last.data = "Y"
  /\ \E r \in RoomNames : LastSocket \in rooms[r] /\ Cardinality(rooms[r]) = 2
  /\ Recipients # {}

\* C6: whatever happened before, a forwarded message reaches only members
\* of the room its sender is a member of, and at most one socket.
C6_ForwardStaysInSendersRoom ==
  last.op = "forward"
  => /\ \A p \in Recipients :
          \E r \in RoomNames : p \in rooms[r] /\ LastSocket \in rooms[r]
     /\ Cardinality(Recipients) <= 1

\* C7: offer, answer or ice-candidate from a socket without a room (it has
\* not joined one, or it has disconnected) reaches no one and changes no
\* member set and no association.
C7_ForwardWithoutRoomDropped ==
  [][(/\ last'.op = "forward"
      /\ \/ currentRoom[last'.socket] = undefined
         \/ status[last'.socket] = "disconnected")
     => /\ Recipients' = {}
        /\ sent' = <<>>
        /\ rooms' = rooms
        /\ currentRoom' = currentRoom]_vars

\* a socket that has disconnected from a room sends into it; the room is
\* still occupied, and nothing arrives
C7_Witness ==
  /\ last.op = "forward"
  /\ status[LastSocket] = "disconnected"
  /\ \E r \in RoomNames : rooms[r] # {}
  /\ sent = <<>>

\* C8: when a member of a room disconnects it is taken out of the room and
\* its association is cleared; every socket that stays in the room gets
\* exactly one message, peer_disconnected, and nobody else gets anything
\* (so nobody at all when it was alone).  A socket without an association
\* that disconnects causes no message.
C8_DisconnectNotifiesPeer ==
  [][last'.op = "disconnect"
     => LET s == last'.socket
        IN /\ \A r \in RoomNames :
                s \in rooms[r]
                => /\ s \notin rooms'[r]
                   /\ rooms'[r] = rooms[r] \ {s}
                   /\ currentRoom'[s] = undefined
                   /\ Recipients' = rooms[r] \ {s}
                   /\ \A p \in rooms[r] \ {s} :
                        /\ Cardinality(DeliveredTo(p)') = 1
                        /\ \A i \in DeliveredTo(p)' :
                             sent'[i].ev = "peer_disconnected"
           /\ currentRoom[s] = undefined => Recipients' = {}]_vars

\* a member of a room of two has disconnected and its peer was told
C8_Witness ==
  /\ last.op = "disconnect"
  /\ status[LastSocket] = "disconnected"
  /\ Recipients # {}
  /\ \A p \in Recipients : p \in rooms[sent[1].room]

\* socket s was joined to room r (only a join that went through sets the
\* association) and is no longer a member of it: it has left r
HasLeft(s, r) == currentRoom[s] = r /\ s \notin rooms[r]

\* C9: once a socket has left a room, a later leave of that socket (a
\* disconnect, or a join to some other room) delivers no peer_disconnected
\* in that room and changes no membership there.
C9_LeaveIdempotent ==
  [][\A r \in RoomNames :
       (/\ last'.op \in {"join", "disconnect"}
        /\ HasLeft(last'.socket, r)
        /\ last'.op = "join" => TargetRoom(last'.input) # r)
       => /\ \A i \in Emitted("peer_disconnected")' :
               sent'[i].room = r => sent'[i].to = {}
          /\ rooms'[r] = rooms[r]]_vars

\* C10: every socket is a member of at most one room.
C10_AtMostOneRoom ==
  \A s \in Sockets : Cardinality(MemberOf(s)) <= 1

\* a socket has moved from one room into another
C10_Witness ==
  /\ last.op = "join"
  /\ LastSocket \in rooms[LastTarget]
  /\ Emitted("peer_disconnected") # {}
  /\ \A i \in Emitted("peer_disconnected") : sent[i].room # LastTarget

\* the role signals among the emissions of the last handler
RoleEmissions == Emitted("initiate_offer") \cup Emitted("peer_ready")

\* C11: when a member of room r1 joins another room, it is taken out of r1
\* and the rest of r1 is sent peer_disconnected, exactly once, and that
\* emission precedes every initiate_offer and peer_ready of the same join.
C11_LeaveBeforeRoles ==
  [][\A r1 \in RoomNames :
       (/\ last'.op = "join"
        /\ last'.socket \in rooms[r1]
        /\ TargetRoom(last'.input) # r1)
       => /\ last'.socket \notin rooms'[r1]
          /\ Cardinality({i \in Emitted("peer_disconnected")' :
                            sent'[i].room = r1}) = 1
          /\ \A i \in Emitted("peer_disconnected")' :
               /\ sent'[i].room = r1
               /\ sent'[i].to = rooms[r1] \ {last'.socket}
               /\ \A j \in RoleEmissions' : i < j]_vars

\* a socket left a peer behind in one room and filled another room
C11_Witness ==
  /\ last.op = "join"
  /\ LastSocket \in rooms[LastTarget]
  /\ RoleEmissions # {}
  /\ \E i \in Emitted("peer_disconnected") :
       sent[i].to # {} /\ sent[i].room # LastTarget

\* C15 as stated: when a member of a room of two disconnects, the socket
\* that stays behind is no longer a member of the room and has no room
\* association once it has been sent peer_disconnected.
C15_PeerMembershipCleared ==
  [][\A r \in RoomNames :
       (/\ last'.op = "disconnect"
        /\ last'.socket \in rooms[r]
        /\ Cardinality(rooms[r]) = 2)
       => \A b \in rooms[r] \ {last'.socket} :
            /\ DeliveredTo(b)' # {}
            /\ b \notin rooms'[r]
            /\ currentRoom'[b] = undefined]_vars

\* C15 as amended: when a member of a room of two disconnects, its own
\* membership and association are cleared; the socket that stays behind is
\* sent peer_disconnected and remains the only member of the room, with
\* its association to that room unchanged.
C15_OnlyLeaverCleared ==
  [][\A r \in RoomNames :
       (/\ last'.op = "disconnect"
        /\ last'.socket \in rooms[r]
        /\ Cardinality(rooms[r]) = 2)
       => /\ last'.socket \notin rooms'[r]
          /\ currentRoom'[last'.socket] = undefined
          /\ \A b \in rooms[r] \ {last'.socket} :
               /\ DeliveredTo(b)' # {}
               /\ rooms'[r] = {b}
               /\ currentRoom[b] = r
               /\ currentRoom'[b] = r]_vars

\* a socket of a pair has disconnected; its peer was told and is still in
\* the room
C15_Witness ==
  /\ last.op = "disconnect"
  /\ Recipients # {}
  /\ \A b \in Recipients : b \in rooms[currentRoom[b]]
  /\ \E r \in RoomNames : rooms[r] = Recipients

\* C17: a join that goes through and leaves the target room with one member
\* emits neither initiate_offer nor peer_ready.
C17_AloneNoSignal ==
  (/\ last.op = "join"
   /\ LastSocket \in rooms[LastTarget]
   /\ Cardinality(rooms[LastTarget]) = 1)
  => RoleEmissions = {}

\* a socket has moved out of a pair into a room where it is alone
C17_Witness ==
  /\ last.op = "join"
  /\ rooms[LastTarget] = {LastSocket}
  /\ \E i \in Emitted("peer_disconnected") : sent[i].to # {}
  /\ RoleEmissions = {}

\* C18: initiate_offer and peer_ready are emitted only by a join that takes
\* its target room from 1 member to 2: not by a join to an empty room, a
\* re-join, a rejected join, a forward, a disconnect or a connection.
C18_RolesOnlyOnFill ==
  [][RoleEmissions' # {}
     => /\ last'.op = "join"
        /\ Cardinality(rooms[TargetRoom(last'.input)]) = 1
        /\ Cardinality(rooms'[TargetRoom(last'.input)]) = 2
        /\ last'.socket \notin rooms[TargetRoom(last'.input)]]_vars

\* a member of a full room joined it again and nothing was emitted
C18_Witness ==
  /\ last.op = "join"
  /\ LastSocket \in rooms[LastTarget]
  /\ Cardinality(rooms[LastTarget]) = 2
  /\ currentRoom[LastSocket] = LastTarget
  /\ sent = <<>>

\* the participants of room r: the connected sockets among its members
Participants(r) == {p \in rooms[r] : status[p] = "connected"}

\* C19: a room whose participants have all gone keeps nothing.  A join to a
\* room without participants ends with the joiner as its only member and no
\* role signal, whether or not the room was used before; the next join by
\* another socket makes the pair and assigns the roles: initiate_offer to
\* the joiner, peer_ready to the socket that was waiting.
C19_RoomStartsAfresh ==
  [][\A r \in RoomNames :
       (last'.op = "join" /\ TargetRoom(last'.input) = r)
       => /\ Participants(r) = {}
             => /\ rooms'[r] = {last'.socket}
                /\ currentRoom'[last'.socket] = r
                /\ RoleEmissions' = {}
                /\ \A i \in 1..Len(sent') : sent'[i].room # r
          /\ (Cardinality(Participants(r)) = 1
              /\ last'.socket \notin Participants(r))
             => /\ rooms'[r] = Participants(r) \cup {last'.socket}
                /\ \E i \in Emitted("initiate_offer")' :
                     sent'[i].to = {last'.socket}
                /\ \E i \in Emitted("peer_ready")' :
                     sent'[i].to = Participants(r)]_vars

\* room r was left by a socket that is still associated with it, was then
\* joined by a second socket that found it empty, and now a third socket
\* has joined and been paired with the second
C19_Witness ==
  /\ last.op = "join"
  /\ Cardinality(rooms[LastTarget]) = 2
  /\ LastSocket \in rooms[LastTarget]
  /\ RoleEmissions # {}
  /\ \E c \in Sockets : HasLeft(c, LastTarget)

(* -------------------- the participant: observations -------------------- *)
RECURSIVE FirstOccurrences(_)
FirstOccurrences(q) ==
  IF q = <<>> THEN <<>>
  ELSE LET front == FirstOccurrences(SubSeq(q, 1, Len(q) - 1))
       IN IF q[Len(q)] \in Range(front) THEN front
          ELSE Append(front, q[Len(q)])

\* the candidates that arrived while the session was open and had no remote
\* description, in order of (first) arrival
ReceivedEarly ==
  LET Early(a) == a.open /\ ~a.remoteSet
      early == SelectSeq(arrived, Early)
  IN FirstOccurrences([i \in 1..Len(early) |-> early[i].cand])

\* the candidates the connection has applied, in order of application
AppliedCandidates ==
  LET Is(e) == e.kind = "applied" /\ e.op = "addIceCandidate"
      log == SelectSeq(pcLog, Is)
  IN [i \in 1..Len(log) |-> log[i].cand]

\* those of them that came out of the queue
AppliedFromQueue ==
  LET Is(e) == e.kind = "applied" /\ e.op = "addIceCandidate" /\ e.via = "queue"
      log == SelectSeq(pcLog, Is)
  IN [i \in 1..Len(log) |-> log[i].cand]

\* the entries this step adds to pcLog
NewLog == IF Len(pcLog') > Len(pcLog)
          THEN SubSeq(pcLog', Len(pcLog) + 1, Len(pcLog'))
          ELSE <<>>

IsPrefix(p, q) == Len(p) <= Len(q) /\ p = SubSeq(q, 1, Len(p))

\* nothing is pending on the connection
Quiescent == operations = <<>>

(* ------------------------------ C12 ------------------------------------ *)
\* C12: no candidate is handed to or applied by the session while it has no
\* remote description; the candidates received before the remote
\* description was set are applied in the order in which they were received
\* (what has been applied of them is at any moment the front part of what
\* was received), and all of them have been applied once the session has a
\* remote description, is not closed and has nothing pending.
C12_QueuedCandidatesFifo ==
  /\ [][\A i \in 1..Len(NewLog) :
          NewLog[i].op = "addIceCandidate" => Described(remoteDescription')]_vars
  /\ [](IsPrefix(AppliedFromQueue, ReceivedEarly))
  /\ []((Quiescent /\ SessionOpen /\ Described(remoteDescription))
        => AppliedFromQueue = ReceivedEarly)

\* two candidates were queued, the offer was accepted, and both have been
\* applied out of the queue
C12_Witness ==
  /\ Len(ReceivedEarly) >= 2
  /\ AppliedFromQueue = ReceivedEarly
  /\ remoteDescription.type = "offer"

(* ------------------------------ C13 ------------------------------------ *)
\* C13: once the session is closed (PeerDisconnected processed, or the
\* participant left), no step hands anything to the connection or changes
\* what it holds: no candidate and no description is submitted or applied,
\* the descriptions and the closed state stay as they are; this includes
\* the steps in which a suspended creation, acceptance or queue drain
\* resumes.
C13_ClosedSessionUntouched ==
  [][signalingState = "closed"
     => /\ pcLog' = pcLog
        /\ remoteDescription' = remoteDescription
        /\ localDescription' = localDescription
        /\ signalingState' = "closed"]_vars

\* PeerDisconnected arrived while the drain of two queued candidates was
\* suspended on the first; the drain has resumed and ended without
\* touching the second
C13_Witness ==
  /\ signalingState = "closed" /\ pcCurrent
  /\ lastEvent.ev = "rejected" /\ lastEvent.cand # 0
  /\ Len(ReceivedEarly) >= 2
  /\ pcLog # <<>>
  /\ pcLog[Len(pcLog)] = Called("addIceCandidate", NoDescription,
                                lastEvent.cand, "queue")
  /\ Quiescent

(* ------------------------------ C14 ------------------------------------ *)
\* C14: a participant that is in HaveLocalOffer when PeerDisconnected is
\* delivered (the relay sends it when the peer disconnects, see
\* C8_DisconnectNotifiesPeer) becomes Closed, and an Answer delivered to a
\* Closed participant is dropped without effect: nothing is handed to the
\* connection, no description and no state changes, nothing is queued and
\* nothing is emitted.
C14_LateAnswerDropped ==
  [][/\ (/\ lastEvent'.ev = "peer_disconnected"
         /\ delivered' = delivered + 1
         /\ signalingState = "have-local-offer")
        => signalingState' = "closed"
     /\ (/\ lastEvent'.ev = "answer"
         /\ delivered' = delivered + 1
         /\ signalingState = "closed")
        => UNCHANGED <<signalingState, remoteDescription, localDescription,
                       queuedIceCandidates, operations, pcLog, outbox>>]_vars

\* the participant sent its offer, was told that the peer is gone, and has
\* just received the peer's answer
C14_Witness ==
  /\ lastEvent.ev = "answer"
  /\ signalingState = "closed"
  /\ localDescription = LocalOffer
  /\ ~Described(remoteDescription)
  /\ \E i \in 1..Len(outbox) : outbox[i].ev = "offer"

(* ------------------------------ C16 ------------------------------------ *)
\* exactly three candidates have arrived, all different, at an open session
ThreeArrived ==
  /\ Len(arrived) = 3
  /\ \A i, j \in 1..3 : i # j => arrived[i].cand # arrived[j].cand
  /\ \A i \in 1..3 : arrived[i].open

ArrivedCandidates == [i \in 1..Len(arrived) |-> arrived[i].cand]
ArrivedInits == [i \in 1..Len(arrived) |-> CandidateInit(arrived[i].cand)]

\* C16 as stated: when three distinct candidates have reached the
\* participant before it sent its answer, the queue holds exactly these
\* three in arrival order (right after the third has arrived), and once the
\* participant has a remote description and nothing pending, the three
\* have been applied in that order.
C16_QueuedBeforeAnswerSent ==
  /\ (/\ ThreeArrived
      /\ \A i \in 1..3 : ~arrived[i].answered
      /\ lastEvent.ev = "ice-candidate")
     => queuedIceCandidates = ArrivedInits
  /\ (/\ ThreeArrived
      /\ \A i \in 1..3 : ~arrived[i].answered
      /\ SessionOpen /\ Described(remoteDescription) /\ Quiescent)
     => AppliedCandidates = ArrivedCandidates

\* C16, amended: when three distinct candidates have reached the
\* participant while its session was open and had no remote description,
\* the queue holds exactly these three in arrival order (right after the
\* third has arrived), and once the session has a remote description, is
\* not closed and has nothing pending, the three have been applied out of
\* the queue in that order.
C16_QueuedBeforeRemoteDescription ==
  /\ (/\ ThreeArrived
      /\ \A i \in 1..3 : ~arrived[i].remoteSet
      /\ lastEvent.ev = "ice-candidate")
     => queuedIceCandidates = ArrivedInits
  /\ (/\ ThreeArrived
      /\ \A i \in 1..3 : ~arrived[i].remoteSet
      /\ SessionOpen /\ Described(remoteDescription) /\ Quiescent)
     => /\ AppliedFromQueue = ArrivedCandidates
        /\ queuedIceCandidates = <<>>

\* three candidates were queued, the offer was accepted and answered, and
\* the three have been applied
C16_Witness ==
  /\ ThreeArrived
  /\ \A i \in 1..3 : ~arrived[i].remoteSet
  /\ AppliedFromQueue = ArrivedCandidates
  /\ Quiescent /\ SessionOpen
  /\ \E i \in 1..Len(outbox) : outbox[i].ev = "answer"

(* ------------------------------ C20 ------------------------------------ *)
\* this step is the handler of socket event ev
Receiving(ev) == lastEvent'.ev = ev /\ delivered' = delivered + 1

\* this step settles the operation at the head of the chain
SettleStep ==
  /\ operations # <<>> /\ operations' # operations
  /\ delivered' = delivered
  /\ lastEvent'.ev \in {"settled", "rejected"}

CallsNow(op) == \E i \in 1..Len(NewLog) :
                  NewLog[i].kind = "call" /\ NewLog[i].op = op

\* this step ends the queue drain of an offer's acceptance: the offer has
\* just been accepted or a drained candidate has just settled, and no
\* further candidate is handed to the connection
OfferDrainOver ==
  /\ SettleStep
  /\ Head(operations).fn = "createAnswer"
  /\ \/ Head(operations).at = "drain" /\ lastEvent'.ev = "settled"
     \/ Head(operations).at = "loop"
  /\ ~CallsNow("addIceCandidate")

\* what follows the submission of an offer: when the connection accepts it,
\* it is the remote description, the state is HaveRemoteOffer and the queue
\* has been emptied into the drain; an answer is created exactly at the
\* end of that drain and exactly when the state is then HaveRemoteOffer;
\* the answer is sent when it has been stored as local description, which
\* ends in Stable.
OfferFollowUp ==
  /\ (/\ SettleStep
      /\ Head(operations).op = "setRemoteDescription"
      /\ Head(operations).desc.type = "offer"
      /\ lastEvent'.ev = "settled")
     => /\ remoteDescription' = Head(operations).desc
        /\ signalingState' = "have-remote-offer"
        /\ queuedIceCandidates' = <<>>
        /\ queuedIceCandidates # <<>>
           => NewLog[Len(NewLog)] =
                Called("addIceCandidate", NoDescription,
                       Head(queuedIceCandidates).candidate, "queue")
  /\ CallsNow("createAnswer")
     <=> (OfferDrainOver /\ signalingState' = "have-remote-offer")
  /\ (SettleStep /\ Head(operations).op = "createAnswer"
      /\ lastEvent'.ev = "settled")
     => NewLog = << Called("setLocalDescription", LocalAnswer, 0, "direct") >>
  /\ (SettleStep /\ Head(operations).op = "setLocalDescription"
      /\ Head(operations).desc.type = "answer")
     => IF lastEvent'.ev = "settled"
        THEN /\ outbox' = Append(outbox, [ev |-> "answer", sdp |-> LocalAnswer.sdp])
             /\ localDescription' = LocalAnswer
             /\ signalingState = "have-remote-offer"
             /\ signalingState' = "stable"
        ELSE outbox' = outbox
  /\ (Len(outbox') > Len(outbox) /\ outbox'[Len(outbox')].ev = "answer")
     => /\ SettleStep
        /\ Head(operations).op = "setLocalDescription"

\* C20 as stated: an offer received in any state other than Closed is
\* handed to the connection as its remote description, with the follow-up
\* described above.
C20_OfferAcceptedWheneverOpen ==
  [][/\ (Receiving("offer") /\ SessionOpen)
        => NewLog = << Called("setRemoteDescription",
                              RemoteOffer(lastEvent'.sdp), 0, "direct") >>
     /\ OfferFollowUp]_vars

\* C20, amended: an offer received while the session is not Closed and has
\* no remote description yet is handed to the connection as its remote
\* description; an offer received when a remote description is set (or in
\* Closed) is ignored; with the follow-up described above.
C20_OfferAcceptedOnce ==
  [][/\ Receiving("offer")
        => IF SessionOpen /\ ~Described(remoteDescription)
           THEN NewLog = << Called("setRemoteDescription",
                                   RemoteOffer(lastEvent'.sdp), 0, "direct") >>
           ELSE UNCHANGED <<signalingState, remoteDescription,
                            localDescription, queuedIceCandidates,
                            operations, pcLog, outbox>>
     /\ OfferFollowUp]_vars

\* an offer was accepted with a candidate waiting in the queue, the
\* candidate was applied, and the answer has just been sent
C20_Witness ==
  /\ lastEvent.ev = "settled"
  /\ signalingState = "stable"
  /\ remoteDescription.type = "offer"
  /\ localDescription = LocalAnswer
  /\ Len(AppliedFromQueue) >= 1
  /\ outbox # <<>>
  /\ outbox[Len(outbox)].ev = "answer"

(* ------------------------------ C21 ------------------------------------ *)
\* the operation at the head of the chain was awaited by offer creation or
\* answer creation
CreationSuspended ==
  /\ operations # <<>>
  /\ Head(operations).fn \in {"createOffer", "createAnswer"}

FirstIndex(q, x) ==
  CHOOSE i \in 1..Len(q) : q[i] = x /\ \A j \in 1..(i - 1) : q[j] # x

\* C22: the candidates are applied in the order in which they were
\* received: of two candidates that have been applied, the one that was
\* received first was applied first (first arrival and first application
\* of each candidate).
C22_AppliedInArrivalOrder ==
  LET firstApplied == FirstOccurrences(AppliedCandidates)
  IN \A i, j \in 1..Len(firstApplied) :
       i < j => FirstIndex(ArrivedCandidates, firstApplied[i])
                  < FirstIndex(ArrivedCandidates, firstApplied[j])

(* ------------------------------ C23 ------------------------------------ *)
\* C23: the relay's room association and the room member sets agree: a
\* socket's currentRoom is r exactly when the socket is a member of room r.
C23_AssociationMatchesMembership ==
  \A s \in Sockets : \A r \in RoomNames :
    currentRoom[s] = r <=> s \in rooms[r]

(* ------------------------------ C24 ------------------------------------ *)
\* the program state of the participant
sessionVars == <<pcCurrent, signalingState, remoteDescription,
                 localDescription, queuedIceCandidates, operations,
                 pcLog, outbox>>

CountOf(q, Test(_)) == Len(SelectSeq(q, Test))

\* what follows the start of an offer creation: when the offer has been
\* created and the state is still Stable it is handed to the connection as
\* local description; when the connection has stored it the state is
\* HaveLocalOffer and exactly one Offer is sent; an Offer is sent in no
\* other step, so that there are never more Offers sent than offer
\* creations started.
InitiateFollowUp ==
  /\ (SettleStep /\ Head(operations).op = "createOffer"
      /\ lastEvent'.ev = "settled")
     => NewLog = IF signalingState = "stable"
                 THEN << Called("setLocalDescription", LocalOffer, 0, "direct") >>
                 ELSE <<>>
  /\ (SettleStep /\ Head(operations).op = "setLocalDescription"
      /\ Head(operations).desc.type = "offer")
     => IF lastEvent'.ev = "settled"
        THEN /\ outbox' = Append(outbox, [ev |-> "offer", sdp |-> LocalOffer.sdp])
             /\ localDescription' = LocalOffer
             /\ signalingState' = "have-local-offer"
        ELSE outbox' = outbox
  /\ (Len(outbox') > Len(outbox) /\ outbox'[Len(outbox')].ev = "offer")
     => /\ SettleStep
        /\ Head(operations).op = "setLocalDescription"
        /\ Len(outbox') = Len(outbox) + 1

OffersNotMoreThanCreations ==
  LET IsOffer(m) == m.ev = "offer"
      IsCreation(e) == e.kind = "call" /\ e.op = "createOffer"
  IN CountOf(outbox, IsOffer) <= CountOf(pcLog, IsCreation)

\* C24 as stated: InitiateOffer received in Stable starts an offer
\* creation, with the follow-up described above; InitiateOffer received in
\* any other state changes nothing and sends nothing.
C24_InitiateInStable ==
  /\ [][/\ Receiving("initiate_offer")
           => IF pcCurrent /\ signalingState = "stable"
              THEN NewLog = << Called("createOffer", NoDescription, 0, "direct") >>
              ELSE UNCHANGED sessionVars
        /\ InitiateFollowUp]_vars
  /\ []OffersNotMoreThanCreations

\* C24, amended: InitiateOffer received in Stable while no remote
\* description is set starts an offer creation, with the follow-up
\* described above; InitiateOffer received in any other state, or once a
\* remote description is set, changes nothing and sends nothing.
C24_InitiateInFreshStable ==
  /\ [][/\ Receiving("initiate_offer")
           => IF pcCurrent /\ signalingState = "stable"
                 /\ ~Described(remoteDescription)
              THEN /\ NewLog = << Called("createOffer", NoDescription, 0, "direct") >>
                   /\ UNCHANGED <<signalingState, remoteDescription,
                                  localDescription, queuedIceCandidates, outbox>>
              ELSE UNCHANGED sessionVars
        /\ InitiateFollowUp]_vars
  /\ []OffersNotMoreThanCreations

\* InitiateOffer was received in Stable, the offer has been created and
\* stored, and has just been sent
C24_Witness ==
  /\ lastEvent.ev = "settled"
  /\ signalingState = "have-local-offer"
  /\ localDescription = LocalOffer
  /\ outbox = << [ev |-> "offer", sdp |-> LocalOffer.sdp] >>

(* ------------------------------ C25 ------------------------------------ *)
\* C25: an Answer received in HaveLocalOffer is handed to the connection as
\* its remote description; when the connection accepts it, it is the
\* remote description, the state is Stable and the queue has been emptied
\* into the drain, which starts with the first queued candidate; from then
\* on the state stays Stable as long as the session is open.
C25_AnswerAccepted ==
  /\ [][/\ (Receiving("answer") /\ pcCurrent
            /\ signalingState = "have-local-offer")
           => /\ NewLog = << Called("setRemoteDescription",
                                    RemoteAnswer(lastEvent'.sdp), 0, "direct") >>
              /\ operations' # operations
        /\ (/\ SettleStep
            /\ Head(operations).op = "setRemoteDescription"
            /\ Head(operations).desc.type = "answer"
            /\ lastEvent'.ev = "settled")
           => /\ remoteDescription' = Head(operations).desc
              /\ signalingState' = "stable"
              /\ queuedIceCandidates' = <<>>
              /\ NewLog = << Applied("setRemoteDescription",
                                     Head(operations).desc, 0, "direct") >>
                          \o IF queuedIceCandidates = <<>> THEN <<>>
                             ELSE << Called("addIceCandidate", NoDescription,
                                            Head(queuedIceCandidates).candidate,
                                            "queue") >>]_vars
  /\ []((remoteDescription.type = "answer" /\ SessionOpen)
        => signalingState = "stable")
  /\ []((remoteDescription.type = "answer" /\ SessionOpen /\ Quiescent)
        => /\ AppliedFromQueue = ReceivedEarly
           /\ queuedIceCandidates = <<>>)

\* the participant sent its offer, queued two candidates, then received the
\* answer; the answer is accepted and both candidates have been applied
C25_Witness ==
  /\ remoteDescription.type = "answer"
  /\ signalingState = "stable"
  /\ localDescription = LocalOffer
  /\ Len(ReceivedEarly) = 2
  /\ AppliedFromQueue = ReceivedEarly
  /\ Quiescent /\ SessionOpen

(* ------------------------------ C26 ------------------------------------ *)
\* C26: an Answer received in any state other than HaveLocalOffer (Stable,
\* HaveRemoteOffer, Closed) is dropped: nothing is handed to the
\* connection, no description changes, the queue is left as it is, the
\* state is unchanged and nothing is emitted.
C26_AnswerElsewhereDropped ==
  [][(Receiving("answer") /\ signalingState # "have-local-offer")
     => UNCHANGED sessionVars]_vars

\* an answer has just been received by a participant that is itself
\* answering an offer, with a candidate still in the queue
C26_Witness ==
  /\ lastEvent.ev = "answer"
  /\ signalingState \in {"stable", "have-remote-offer"}
  /\ queuedIceCandidates # <<>>
  /\ operations # <<>>

(* ------------------------------ C27 ------------------------------------ *)
\* C27: a candidate received while the session is not closed is put to the
\* queue and not handed to the connection when no remote description is
\* set (the queue then holds it, and grows by it unless it already held a
\* candidate of that content), and is handed to the connection at once and
\* not put to the queue when a remote description is set; the queue is
\* empty whenever a remote description is set, and no step makes it grow
\* then.
C27_QueuedIffNoRemoteDescription ==
  /\ [][/\ (Receiving("ice-candidate") /\ SessionOpen)
           => LET c == CandidateInit(lastEvent'.cand)
              IN IF ~Described(remoteDescription)
                 THEN /\ NewLog = <<>>
                      /\ operations' = operations
                      /\ IsQueued(queuedIceCandidates', c)
                      /\ queuedIceCandidates' \in
                           {queuedIceCandidates, Append(queuedIceCandidates, c)}
                 ELSE /\ NewLog = << Called("addIceCandidate", NoDescription,
                                            c.candidate, "direct") >>
                      /\ operations' # operations
                      /\ queuedIceCandidates' = queuedIceCandidates
        /\ Described(remoteDescription)
           => Len(queuedIceCandidates') <= Len(queuedIceCandidates)]_vars
  /\ [](Described(remoteDescription) => queuedIceCandidates = <<>>)

\* a candidate has just been received by an open session that has accepted
\* an offer, and went to the connection directly
C27_Witness ==
  /\ lastEvent.ev = "ice-candidate"
  /\ SessionOpen /\ Described(remoteDescription)
  /\ pcLog[Len(pcLog)] = Called("addIceCandidate", NoDescription,
                                lastEvent.cand, "direct")
  /\ queuedIceCandidates = <<>>
  /\ Len(ReceivedEarly) >= 1

(* ------------------------------ C28 ------------------------------------ *)
\* the candidates the drain has handed to the connection, in order
CalledFromQueue ==
  LET Is(e) == e.kind = "call" /\ e.op = "addIceCandidate" /\ e.via = "queue"
      log == SelectSeq(pcLog, Is)
  IN [i \in 1..Len(log) |-> log[i].cand]

NoRepeats(q) == \A i, j \in 1..Len(q) : q[i] = q[j] => i = j

\* this step starts the drain (a remote description has just been
\* accepted) or resumes it (a drained candidate has just settled)
DrainStep ==
  /\ SettleStep
  /\ \/ Head(operations).at = "drain" /\ lastEvent'.ev = "settled"
     \/ Head(operations).at = "loop"

\* what the drain has still to hand to the connection in this step
DrainPending ==
  IF Head(operations).at = "drain" THEN queuedIceCandidates
  ELSE Head(operations).rest

\* C28: every candidate that was put to the queue is applied exactly once
\* after the remote description is accepted, unless the session is closed
\* before the drain reaches it: the step that starts the drain empties the
\* queue; as long as the session is open every step of the drain hands the
\* next candidate to the connection and keeps the others, and the
\* connection applies each candidate the drain handed to it; the drain
\* hands no candidate twice, and when it is over in an open session the
\* candidates applied from the queue are those that were queued, each once.
C28_QueuedAppliedOnce ==
  /\ [][/\ (DrainStep /\ signalingState # "closed")
           => /\ Head(operations).at = "drain" => queuedIceCandidates' = <<>>
              /\ IF DrainPending # <<>>
                 THEN /\ operations' # <<>>
                      /\ operations'[Len(operations')] =
                           Op("addIceCandidate", NoDescription,
                              Head(DrainPending), Head(operations).fn, "loop",
                              Tail(DrainPending))
                      /\ NewLog[Len(NewLog)] =
                           Called("addIceCandidate", NoDescription,
                                  Head(DrainPending).candidate, "queue")
                 ELSE ~CallsNow("addIceCandidate")
        /\ (/\ SettleStep /\ signalingState # "closed"
            /\ Head(operations).op = "addIceCandidate"
            /\ Head(operations).at = "loop")
           => /\ lastEvent'.ev = "settled"
              /\ NewLog[1] = Applied("addIceCandidate", NoDescription,
                                     Head(operations).cand.candidate, "queue")]_vars
  /\ [](/\ NoRepeats(CalledFromQueue)
        /\ IsPrefix(AppliedFromQueue, CalledFromQueue)
        /\ CalledFromQueue # <<>> => queuedIceCandidates = <<>>)
  /\ []((Quiescent /\ SessionOpen /\ Described(remoteDescription))
        => \A k \in Range(ReceivedEarly) :
             Cardinality({i \in 1..Len(AppliedFromQueue) :
                            AppliedFromQueue[i] = k}) = 1)

\* one candidate arrived twice and another once before the offer; the two
\* queued candidates have each been applied once from the queue
C28_Witness ==
  /\ Len(arrived) = 3
  /\ \A i \in 1..3 : ~arrived[i].remoteSet /\ arrived[i].open
  /\ Len(ReceivedEarly) = 2
  /\ AppliedFromQueue = ReceivedEarly
  /\ AppliedCandidates = ReceivedEarly
  /\ Quiescent /\ SessionOpen

(* ------------------------------ C29 ------------------------------------ *)
\* C29: the queue never holds two candidates of the same content, and
\* receiving a candidate whose content is that of a queued candidate
\* leaves the queue unchanged.
C29_QueueWithoutDuplicates ==
  /\ [](\A i, j \in 1..Len(queuedIceCandidates) :
          queuedIceCandidates[i].candidate = queuedIceCandidates[j].candidate
          => i = j)
  /\ [][(/\ Receiving("ice-candidate")
         /\ \E i \in 1..Len(queuedIceCandidates) :
              queuedIceCandidates[i].candidate = lastEvent'.cand)
        => queuedIceCandidates' = queuedIceCandidates]_vars

\* two candidates are queued and the first of them has just arrived again
C29_Witness ==
  /\ lastEvent.ev = "ice-candidate"
  /\ Len(arrived) = 3
  /\ Len(queuedIceCandidates) = 2
  /\ queuedIceCandidates[1].candidate = lastEvent.cand
  /\ SessionOpen

(* ------------------------------ C30 ------------------------------------ *)
\* the descriptions the participant can read from its session
StoredRemote == IF pcCurrent THEN remoteDescription ELSE NoDescription
StoredLocal == IF pcCurrent THEN localDescription ELSE NoDescription

\* this step is the participant leaving the room
Leaving == lastEvent'.ev = "leaveRoom" /\ listening /\ ~listening'

\* C30 as stated: from any state, PeerDisconnected or a local leave
\* discards the queued candidates, clears the remote and the local
\* description and makes the state Closed.
C30_CloseClearsAll ==
  [][(Receiving("peer_disconnected") \/ Leaving)
     => /\ queuedIceCandidates' = <<>>
        /\ signalingState' = "closed"
        /\ StoredRemote' = NoDescription
        /\ StoredLocal' = NoDescription]_vars

\* C30, amended: from any state, PeerDisconnected or a local leave discards
\* the queued candidates and makes the state Closed; a local leave drops
\* the session object, and its descriptions with it; PeerDisconnected
\* keeps the closed session object and clears neither description.
C30_CloseDiscardsQueue ==
  [][/\ (Receiving("peer_disconnected") \/ Leaving)
        => /\ queuedIceCandidates' = <<>>
           /\ signalingState' = "closed"
     /\ Leaving
        => /\ ~pcCurrent'
           /\ StoredRemote' = NoDescription
           /\ StoredLocal' = NoDescription
     /\ Receiving("peer_disconnected")
        => /\ pcCurrent' = pcCurrent
           /\ remoteDescription' = remoteDescription
           /\ localDescription' = localDescription]_vars

\* PeerDisconnected has just been received by a participant that had
\* stored its offer and queued a candidate: the queue is gone, the offer
\* is still stored
C30_Witness ==
  /\ lastEvent.ev = "peer_disconnected"
  /\ signalingState = "closed"
  /\ StoredLocal = LocalOffer
  /\ Len(ReceivedEarly) >= 1
  /\ CalledFromQueue = <<>>
  /\ queuedIceCandidates = <<>>

(* ------------------------------ C31 ------------------------------------ *)
\* C31: Closed is absorbing: no step leaves the closed state, and every
\* event received in it (Offer, Answer, Candidate, InitiateOffer,
\* PeerReady, PeerDisconnected again) leaves the state, both descriptions
\* and the queue as they are and hands nothing to the connection.
C31_ClosedAbsorbing ==
  [][signalingState = "closed"
     => /\ signalingState' = "closed"
        /\ delivered' = delivered + 1
           => UNCHANGED <<signalingState, remoteDescription, localDescription,
                          queuedIceCandidates, operations, pcLog>>]_vars

\* a candidate has just been received by a participant whose peer has
\* gone, after an accepted offer
C31_Witness ==
  /\ lastEvent.ev = "ice-candidate"
  /\ signalingState = "closed" /\ pcCurrent /\ listening
  /\ Described(remoteDescription)
  /\ delivered >= 3

(* ------------------------------ C40 ------------------------------------ *)
\* C40: a participant whose state is Closed hands nothing to the relay: no
\* step taken in the closed state, the resumption of an operation that was
\* in flight when the session closed included, emits an Offer, an Answer or
\* a Candidate.
C40_ClosedEmitsNothing ==
  [][signalingState = "closed" => outbox' = outbox]_vars

\* the session was closed while setLocalDescription(offer) was in flight,
\* and createOffer has just resumed from the refused call
C40_Witness ==
  /\ signalingState = "closed"
  /\ lastEvent.ev = "rejected" /\ lastEvent.sdp = LocalOffer.sdp
  /\ connectionStatus = "Error creating offer"
  /\ \E i \in 1..Len(pcLog) :
       pcLog[i] = Called("setLocalDescription", LocalOffer, 0, "direct")

(* ------------------------------ C34 ------------------------------------ *)
\* C34: the Responder never initiates: receiving PeerReady changes neither
\* the state nor a description nor the queue, hands nothing to the
\* connection and sends nothing; an offer creation is started only by the
\* handler of InitiateOffer, an Offer is sent only when the offer of such a
\* creation has been stored, and there are never more Offers sent than
\* offer creations started.
C34_ResponderNeverInitiates ==
  /\ [][/\ Receiving("peer_ready") => UNCHANGED sessionVars
        /\ CallsNow("createOffer") => Receiving("initiate_offer")
        /\ (\E i \in 1..Len(outbox') : i > Len(outbox) /\ outbox'[i].ev = "offer")
           => /\ SettleStep
              /\ Head(operations).fn = "createOffer"
              /\ Head(operations).op = "setLocalDescription"]_vars
  /\ []OffersNotMoreThanCreations

\* PeerReady has just been received by a participant in Stable with a
\* fresh session: no offer creation was started
C34_Witness ==
  /\ lastEvent.ev = "peer_ready"
  /\ connectionStatus = "Peer detected, waiting for offer..."
  /\ pcCurrent /\ signalingState = "stable"
  /\ ~Described(remoteDescription) /\ ~Described(localDescription)
  /\ pcLog = <<>> /\ outbox = <<>> /\ operations = <<>>

(* ------------------------------ C39 ------------------------------------ *)
\* the Offers sent so far, and the remote descriptions the connection has
\* accepted so far
OffersSent == SelectSeq(outbox, LAMBDA m : m.ev = "offer")
RemoteAccepted ==
  SelectSeq(pcLog, LAMBDA e : e.kind = "applied" /\ e.op = "setRemoteDescription")

\* C39: over its lifetime a session sends at most one Offer and accepts at
\* most one remote description, whatever events it receives and whenever
\* they arrive.
C39_OneOfferOneRemote ==
  /\ Len(OffersSent) <= 1
  /\ Len(RemoteAccepted) <= 1

(* ------------------------------ C36 ------------------------------------ *)
\* the step stores the description the operation at the head of the chain
\* carries
Stores(op, type) ==
  /\ SettleStep /\ lastEvent'.ev = "settled"
  /\ Head(operations).op = op /\ Head(operations).desc.type = type

OwnOfferStored ==
  /\ signalingState = "stable" /\ signalingState' = "have-local-offer"
  /\ Stores("setLocalDescription", "offer") /\ localDescription' = LocalOffer
AnswerAcceptedNow ==
  /\ signalingState = "have-local-offer" /\ signalingState' = "stable"
  /\ Stores("setRemoteDescription", "answer")
  /\ remoteDescription' = Head(operations).desc
OfferAcceptedNow ==
  /\ signalingState = "stable" /\ signalingState' = "have-remote-offer"
  /\ Stores("setRemoteDescription", "offer")
  /\ remoteDescription' = Head(operations).desc
OwnAnswerStored ==
  /\ signalingState = "have-remote-offer" /\ signalingState' = "stable"
  /\ Stores("setLocalDescription", "answer") /\ localDescription' = LocalAnswer
OfferAcceptedOverOwn ==
  /\ signalingState = "have-local-offer" /\ signalingState' = "have-remote-offer"
  /\ Stores("setRemoteDescription", "offer")
  /\ remoteDescription' = Head(operations).desc
  /\ localDescription' = NoDescription
SessionCloses ==
  /\ signalingState' = "closed"
  /\ Receiving("peer_disconnected") \/ Leaving

FailStep ==
  /\ operations # <<>> /\ operations' # operations
  /\ delivered' = delivered
  /\ lastEvent'.ev \in {"failed", "rejected"}

\* the candidates the connection was handed and has answered with a failure
FailedCandidates ==
  {k \in 1..NumCandidates :
     /\ \E i \in 1..Len(pcLog) :
          pcLog[i].kind = "call" /\ pcLog[i].op = "addIceCandidate"
          /\ pcLog[i].cand = k
     /\ ~\E i \in 1..Len(pcLog) :
          pcLog[i].kind = "applied" /\ pcLog[i].op = "addIceCandidate"
          /\ pcLog[i].cand = k
     /\ ~\E i \in 1..Len(operations) :
          operations[i].op = "addIceCandidate"
          /\ operations[i].cand.candidate = k}

\* the calls this step makes on the connection
NewCalls == SelectSeq(NewLog, LAMBDA e : e.kind = "call")

\* C32: a failure while applying a candidate changes neither the state nor
\* a description nor the status and sends nothing; when it happens during
\* a queue drain in an open session, the drain goes on with the next of the
\* remaining candidates and keeps the others in order, and after the last
\* one the answer is created if it is due; a candidate received later by an
\* open session with a remote description is handed to the connection,
\* whatever failed before.
C32_CandidateFailureHarmless ==
  [][/\ (FailStep /\ Head(operations).op = "addIceCandidate")
        => /\ UNCHANGED <<pcCurrent, signalingState, remoteDescription,
                          localDescription, queuedIceCandidates,
                          connectionStatus, listening, outbox>>
           /\ LET o == Head(operations)
              IN IF o.at # "loop" \/ ~SessionOpen
                 THEN NewCalls = <<>>
                 ELSE IF o.rest # <<>>
                 THEN /\ NewCalls = << Called("addIceCandidate", NoDescription,
                                            Head(o.rest).candidate, "queue") >>
                      /\ operations'[Len(operations')] =
                           Op("addIceCandidate", NoDescription, Head(o.rest),
                              o.fn, "loop", Tail(o.rest))
                 ELSE NewLog =
                        IF o.fn = "createAnswer"
                           /\ signalingState = "have-remote-offer"
                        THEN << Called("createAnswer", NoDescription, 0, "direct") >>
                        ELSE <<>>
     /\ (Receiving("ice-candidate") /\ SessionOpen
         /\ Described(remoteDescription))
        => NewCalls = << Called("addIceCandidate", NoDescription,
                              lastEvent'.cand, "direct") >>]_vars

\* the first of two queued candidates failed during the drain of an
\* accepted offer, the second was applied, and a candidate received
\* afterwards has just been handed to the connection
C32_Witness ==
  /\ lastEvent.ev = "ice-candidate"
  /\ SessionOpen
  /\ faults = 1
  /\ Len(CalledFromQueue) = 2
  /\ CalledFromQueue[1] \in FailedCandidates
  /\ AppliedFromQueue = << CalledFromQueue[2] >>
  /\ pcLog[Len(pcLog)] = Called("addIceCandidate", NoDescription,
                                lastEvent.cand, "direct")

(* ------------------------------ C33 ------------------------------------ *)
\* this step is the failure of a description call: offer creation, offer or
\* answer acceptance, answer creation, or storing the own description
DescriptionFails ==
  /\ FailStep
  /\ Head(operations).op \in {"createOffer", "createAnswer",
                              "setLocalDescription", "setRemoteDescription"}

ErrorStatus(fn) ==
  IF fn = "createOffer" THEN "Error creating offer"
  ELSE IF fn = "createAnswer" THEN "Error handling offer"
  ELSE "Error handling answer"

\* the Offers and Answers sent so far
DescriptionsSent == SelectSeq(outbox, LAMBDA m : m.ev \in {"offer", "answer"})

\* the attempts under way: every pending description call belongs to one
\* attempt of createOffer, createAnswer or handleAnswer
AttemptsUnderWay ==
  Len(SelectSeq(operations,
                LAMBDA o : o.fn \in {"createOffer", "createAnswer"}))

\* C33: when a description call fails, the status shows the error of the
\* attempt it belongs to, nothing is sent, nothing is stored, and the
\* attempt is over: the function makes no further call on the connection,
\* so it is not retried; an Offer or Answer is sent only by an attempt that
\* a received InitiateOffer or Offer started and that is still under way;
\* only the handlers of InitiateOffer and Offer start an attempt.
C33_FailureSurfacedNoRetry ==
  [][/\ DescriptionFails
        => /\ connectionStatus' = ErrorStatus(Head(operations).fn)
           /\ outbox' = outbox
           /\ NewCalls = <<>>
           /\ operations' = Tail(operations)
           /\ UNCHANGED <<signalingState, remoteDescription, localDescription,
                          queuedIceCandidates>>
     /\ Len(DescriptionsSent') > Len(DescriptionsSent)
        => /\ SettleStep /\ lastEvent'.ev = "settled"
           /\ Head(operations).op = "setLocalDescription"
           /\ Len(DescriptionsSent') = Len(DescriptionsSent) + 1
     /\ AttemptsUnderWay' > AttemptsUnderWay
        => Receiving("initiate_offer") \/ Receiving("offer")]_vars

\* the offer of an InitiateOffer could not be stored: the status shows the
\* error, nothing was sent and nothing is pending
C33_Witness ==
  /\ lastEvent.ev = "failed" /\ lastEvent.sdp = LocalOffer.sdp
  /\ connectionStatus = "Error creating offer"
  /\ SessionOpen /\ signalingState = "stable"
  /\ operations = <<>> /\ outbox = <<>>
  /\ pcLog = << Called("createOffer", NoDescription, 0, "direct"),
                Called("setLocalDescription", LocalOffer, 0, "direct") >>

(* ------------------------------ C35 ------------------------------------ *)
\* this step is the component of socket s handling a packet of event ev
Handles(s, ev) ==
  /\ toClient[s] # <<>> /\ Head(toClient[s]).ev = ev
  /\ toClient'[s] = Tail(toClient[s])
  /\ peers[s].listening /\ peers'[s].listening

\* C35: glare does not occur: in no reachable state of the relay and its
\* participants, whatever is still in flight, is an Offer delivered to a
\* participant whose state is HaveLocalOffer.
C35_NoGlare ==
  [][\A s \in Sockets :
       Handles(s, "offer") => peers[s].signalingState # "have-local-offer"]_vars

(* ------------------------------ C38 ------------------------------------ *)
\* nothing is in flight and no operation is pending
SystemQuiet ==
  \A s \in Sockets :
    toRelay[s] = <<>> /\ toClient[s] = <<>> /\ peers[s].operations = <<>>

\* room r is full and neither occupant has disconnected or left
Staying(r) ==
  /\ Cardinality(rooms[r]) = 2
  /\ \A t \in rooms[r] : status[t] = "connected" /\ peers[t].listening

\* in room r an occupant holds the answer of the other one to its offer
OfferAnswered(r) ==
  \E a, b \in rooms[r] :
    /\ a # b
    /\ peers[b].remoteDescription = OfferOf(a)
    /\ peers[a].remoteDescription = AnswerOf(b)

\* this step makes room r full
BecomesFull(r) == rooms'[r] # rooms[r] /\ Cardinality(rooms'[r]) = 2

\* C38: whenever a room becomes full, whatever happened before, the relay
\* has not paired the joiner with an occupant that is still there and whose
\* state is Closed; and when neither occupant has disconnected or left, the
\* Initiator's Offer is answered once everything in flight has been
\* handled.
C38_FullRoomNegotiates ==
  [][\A r \in RoomNames :
       /\ BecomesFull(r)
          => \A t \in rooms'[r] :
               peers[t].listening => peers[t].signalingState # "closed"
       /\ (SystemQuiet' /\ Staying(r)') => OfferAnswered(r)']_vars

\* both occupants of room r have finished the negotiation: the Initiator's
\* offer was answered, both are Stable with a remote description, and
\* nothing waits in a CandidateQueue
Negotiated(r) ==
  /\ OfferAnswered(r)
  /\ \A t \in rooms[r] :
       /\ peers[t].signalingState = "stable"
       /\ Described(peers[t].remoteDescription)
       /\ peers[t].queuedIceCandidates = <<>>

\* C37: when two participants with fresh sessions have joined the same
\* empty room and nobody disconnects, leaves or fails, then eventually the
\* Initiator's Offer is answered and both are Stable with a remote
\* description set and an empty CandidateQueue.
C37_FreshPairNegotiates ==
  \A r \in RoomNames : (Cardinality(rooms[r]) = 2) ~> Negotiated(r)

\* a pair has negotiated, candidates of both sides included
C37_Witness ==
  /\ SystemQuiet
  /\ \E r \in RoomNames :
       /\ Cardinality(rooms[r]) = 2
       /\ Negotiated(r)
       /\ \A t \in rooms[r] : peers[t].gathered > 0

====
